---- MODULE Spec2Model ----
(***************************************************************************)
(* Model of src/main.py: the upload handler of the insider-trading CSV     *)
(* viewer.  One upload runs the script top to bottom: column validation,   *)
(* the five row filters, column pruning, the totals aggregation, the       *)
(* max-transaction aggregation and the combined summary.                   *)
(*                                                                         *)
(* Representation.                                                         *)
(*   text     a sequence of one-character strings; a missing cell is NaN.  *)
(*   header   a sequence of atoms: blanks and the column name.             *)
(*   number   a raw numeric cell is a record [k, n]: k = "num" for a cell  *)
(*            pandas can read as a number, "txt" for other text, "nan" for *)
(*            a missing cell.  Share counts are in tenths of a share,      *)
(*            percentages in units of 0.00001, and a money value is the    *)
(*            pair <<whole units, thousandths>>.                           *)
(*   frame    [columns |-> sequence of names, rows |-> sequence of rows],  *)
(*            each row a sequence of cells in column order.                *)
(***************************************************************************)
EXTENDS Integers, Sequences, FiniteSets, TLC

VARIABLES
    pc,                        \* position of the script in the current run
    uploaded,                  \* the frame read by pd.read_csv
    df,                        \* the script's df
    counts,                    \* row counts recorded after each filter stage
    session_df,                \* st.session_state.df
    messages,                  \* st.error / st.warning / st.info calls, in order
    shown_df,                  \* the Filtered Dataset view
    transactions_df,           \* df with coerced numbers and Shareholding Delta
    transactions_summary,      \* the Totals table
    max_transactions_summary,  \* the Max-Transaction table
    combined_summary,          \* the Combined Summary table
    shown_summary,             \* the summary table handed to st.dataframe
    history                    \* the runs of the session that are over, oldest first

vars == <<pc, uploaded, df, counts, session_df, messages, shown_df,
          transactions_df, transactions_summary, max_transactions_summary,
          combined_summary, shown_summary, history>>

----------------------------------------------------------------------------
(* Text *)

NaN == <<"NaN">>

notna(c) == c # NaN

S_nan == <<"n","a","n">>

\* Series.astype(str): a missing cell becomes the text 'nan'
astype_str(c) == IF c = NaN THEN S_nan ELSE c

Whitespace == {" ", "\t"}

RECURSIVE lstrip(_)
lstrip(s) == IF s # <<>> /\ Head(s) \in Whitespace THEN lstrip(Tail(s)) ELSE s

RECURSIVE rstrip(_)
rstrip(s) ==
    IF s # <<>> /\ s[Len(s)] \in Whitespace
    THEN rstrip(SubSeq(s, 1, Len(s) - 1)) ELSE s

\* str.strip()
strip(s) == rstrip(lstrip(s))

UpperChars == <<"A","B","C","D","E","F","G","H","I","J","K","L","M","N","O","P","Q","R","S","T","U","V","W","X","Y","Z">>
LowerChars == <<"a","b","c","d","e","f","g","h","i","j","k","l","m","n","o","p","q","r","s","t","u","v","w","x","y","z">>

lower_char(c) ==
    IF \E i \in DOMAIN UpperChars : UpperChars[i] = c
    THEN LowerChars[CHOOSE i \in DOMAIN UpperChars : UpperChars[i] = c]
    ELSE c

upper_char(c) ==
    IF \E i \in DOMAIN LowerChars : LowerChars[i] = c
    THEN UpperChars[CHOOSE i \in DOMAIN LowerChars : LowerChars[i] = c]
    ELSE c

\* str.lower() and str.upper()
lower(s) == [i \in DOMAIN s |-> lower_char(s[i])]
upper(s) == [i \in DOMAIN s |-> upper_char(s[i])]

\* str.contains(sub): sub occurs in s
contains(s, sub) ==
    \E i \in 0..(Len(s) - Len(sub)) : SubSeq(s, i + 1, i + Len(sub)) = sub

----------------------------------------------------------------------------
(* Sequences *)

RECURSIVE TrueIdx(_, _)
\* the positions i >= from of the boolean sequence mask, in order, that hold TRUE
TrueIdx(mask, from) ==
    IF from > Len(mask) THEN <<>>
    ELSE IF mask[from] THEN <<from>> \o TrueIdx(mask, from + 1)
         ELSE TrueIdx(mask, from + 1)

Range(s) == {s[i] : i \in DOMAIN s}

\* position of the first occurrence of x in s, 0 when absent
IndexOf(s, x) ==
    IF \E i \in DOMAIN s : s[i] = x
    THEN CHOOSE i \in DOMAIN s : s[i] = x /\ \A j \in 1..(i - 1) : s[j] # x
    ELSE 0

----------------------------------------------------------------------------
(* Columns *)

REQUIRED_COLUMNS == <<
    <<"SYMBOL">>,
    <<"COMPANY">>,
    <<"REGULATION">>,
    <<"NAME OF THE ACQUIRER/DISPOSER">>,
    <<"CATEGORY OF PERSON">>,
    <<"TYPE OF SECURITY (PRIOR)">>,
    <<"NO. OF SECURITY (PRIOR)">>,
    <<"% SHAREHOLDING (PRIOR)">>,
    <<"TYPE OF SECURITY (ACQUIRED/DISPLOSED)">>,
    <<"NO. OF SECURITIES (ACQUIRED/DISPLOSED)">>,
    <<"VALUE OF SECURITY (ACQUIRED/DISPLOSED)">>,
    <<"ACQUISITION/DISPOSAL TRANSACTION TYPE">>,
    <<"TYPE OF SECURITY (POST)">>,
    <<"NO. OF SECURITY (POST)">>,
    <<"% POST">>,
    <<"DATE OF ALLOTMENT/ACQUISITION FROM">>,
    <<"DATE OF ALLOTMENT/ACQUISITION TO">>,
    <<"DATE OF INITMATION TO COMPANY">>,
    <<"MODE OF ACQUISITION">>,
    <<"DERIVATIVE TYPE SECURITY">>,
    <<"DERIVATIVE CONTRACT SPECIFICATION">>,
    <<"NOTIONAL VALUE(BUY)">>,
    <<"NUMBER OF UNITS/CONTRACT LOT SIZE (BUY)">>,
    <<"NOTIONAL VALUE(SELL)">>,
    <<"NUMBER OF UNITS/CONTRACT LOT SIZE  (SELL)">>,
    <<"EXCHANGE">>,
    <<"REMARK">>,
    <<"BROADCASTE DATE AND TIME">>,
    <<"XBRL">> >>

\* the list with a column the totals need added to it
columns_to_remove_WithSymbol == <<
    <<"DERIVATIVE TYPE SECURITY">>,
    <<"DERIVATIVE CONTRACT SPECIFICATION">>,
    <<"NOTIONAL VALUE(BUY)">>,
    <<"NUMBER OF UNITS/CONTRACT LOT SIZE (BUY)">>,
    <<"NOTIONAL VALUE(SELL)">>,
    <<"NUMBER OF UNITS/CONTRACT LOT SIZE  (SELL)">>,
    <<"REMARK">>,
    <<"BROADCASTE DATE AND TIME">>,
    <<"XBRL">>,
    <<"SYMBOL">>,
    <<"TYPE OF SECURITY (ACQUIRED/DISPLOSED)">> >>

columns_to_remove == <<
    <<"DERIVATIVE TYPE SECURITY">>,
    <<"DERIVATIVE CONTRACT SPECIFICATION">>,
    <<"NOTIONAL VALUE(BUY)">>,
    <<"NUMBER OF UNITS/CONTRACT LOT SIZE (BUY)">>,
    <<"NOTIONAL VALUE(SELL)">>,
    <<"NUMBER OF UNITS/CONTRACT LOT SIZE  (SELL)">>,
    <<"REMARK">>,
    <<"BROADCASTE DATE AND TIME">>,
    <<"XBRL">>,
    <<"TYPE OF SECURITY (ACQUIRED/DISPLOSED)">> >>

SYMBOL == <<"SYMBOL">>
COMPANY == <<"COMPANY">>
REGULATION == <<"REGULATION">>
CATEGORY == <<"CATEGORY OF PERSON">>
SECURITY_PRIOR == <<"TYPE OF SECURITY (PRIOR)">>
PCT_PRIOR == <<"% SHAREHOLDING (PRIOR)">>
SHARES == <<"NO. OF SECURITIES (ACQUIRED/DISPLOSED)">>
VALUE == <<"VALUE OF SECURITY (ACQUIRED/DISPLOSED)">>
TRANSACTION_TYPE == <<"ACQUISITION/DISPOSAL TRANSACTION TYPE">>
PCT_POST == <<"% POST">>
DATE_FROM == <<"DATE OF ALLOTMENT/ACQUISITION FROM">>
MODE == <<"MODE OF ACQUISITION">>

\* frame[col] for one row: the row's cell in column col
Cell(frame, row, col) == row[IndexOf(frame.columns, col)]

\* the columns of frame that are among cols, left in the order of the upload
SelectColumns_UploadOrder(frame, cols) ==
    LET kept == TrueIdx([j \in DOMAIN frame.columns |-> frame.columns[j] \in Range(cols)], 1)
    IN  [columns |-> [k \in DOMAIN kept |-> frame.columns[kept[k]]],
         rows |-> [r \in DOMAIN frame.rows |->
                     [k \in DOMAIN kept |-> frame.rows[r][kept[k]]]]]

\* frame[cols]: the columns cols, in that order
SelectColumns(frame, cols) ==
    [columns |-> cols,
     rows |-> [r \in DOMAIN frame.rows |->
                 [j \in DOMAIN cols |-> frame.rows[r][IndexOf(frame.columns, cols[j])]]]]

\* frame[col]: the column as a sequence of cells
Column(frame, col) == [r \in DOMAIN frame.rows |-> Cell(frame, frame.rows[r], col)]

\* frame[mask]: the rows whose mask entry is TRUE, in their order
SelectRows(frame, mask) ==
    LET idx == TrueIdx(mask, 1)
    IN  [columns |-> frame.columns,
         rows |-> [k \in DOMAIN idx |-> frame.rows[idx[k]]]]

\* no frame at all: a frame read from a file has columns
NoFrame == [columns |-> <<>>, rows |-> <<>>]

----------------------------------------------------------------------------
(* Numbers *)

Null == [k |-> "nan", n |-> 0]

Num(x) == [k |-> "num", n |-> x]

\* a cell that holds text pandas cannot read as a number
NonNumeric == [k |-> "txt", n |-> 0]

\* a count that read_csv parsed as an infinity ('inf', '-inf'): sign is 1 or -1
Inf(sign) == [k |-> "inf", n |-> sign]

isnull(x) == x.k \notin {"num", "inf"}

\* pd.to_numeric(errors='coerce'): what is not a number becomes null
to_numeric(c) == IF c.k \in {"num", "inf"} THEN c ELSE Null

\* post - prior with a null percentage taken as 0
Minus_NullAsZero(post, prior) ==
    IF post.k = "inf" \/ prior.k = "inf" THEN Null
    ELSE Num((IF isnull(post) THEN 0 ELSE post.n) - (IF isnull(prior) THEN 0 ELSE prior.n))

\* post - prior on two coerced cells: null when either is null or when both
\* are the same infinity
Minus(post, prior) ==
    IF isnull(post) \/ isnull(prior) THEN Null
    ELSE IF post.k = "num" /\ prior.k = "num" THEN Num(post.n - prior.n)
    ELSE IF post.k = "inf" /\ prior.k = "inf"
         THEN (IF post.n = prior.n THEN Null ELSE post)
    ELSE IF post.k = "inf" THEN post ELSE Inf(-prior.n)

RECURSIVE SumInt(_)
\* Series.sum() of finite integer-scaled cells: nulls are skipped, nothing
\* sums to 0
SumInt(cells) ==
    IF cells = <<>> THEN 0
    ELSE (IF Head(cells).k # "num" THEN 0 ELSE Head(cells).n) + SumInt(Tail(cells))

\* the last count taken for the sum
SumCount_LastOnly(cells) == to_numeric(cells[Len(cells)])

\* Series.sum() of counts: an infinity makes the sum that infinity, both
\* infinities make it NaN
SumCount(cells) ==
    IF Inf(1) \in Range(cells) /\ Inf(-1) \in Range(cells) THEN Null
    ELSE IF Inf(1) \in Range(cells) THEN Inf(1)
    ELSE IF Inf(-1) \in Range(cells) THEN Inf(-1)
    ELSE Num(SumInt(cells))

\* money: <<whole units, thousandths>>
VAdd(a, b) ==
    LET m == a[2] + b[2]
    IN  <<a[1] + b[1] + (m \div 1000), m % 1000>>

VLess(a, b) == a[1] < b[1] \/ (a[1] = b[1] /\ a[2] < b[2])

VZero == <<0, 0>>

RECURSIVE SumMoney(_)
\* Series.sum() of money cells: nulls are skipped, nothing sums to 0
SumMoney(cells) ==
    IF cells = <<>> THEN VZero
    ELSE IF isnull(Head(cells)) THEN SumMoney(Tail(cells))
         ELSE VAdd(Head(cells).n, SumMoney(Tail(cells)))

\* round(2) of a money value: to the nearest hundredth, a tie to the even one
Round2(v) ==
    LET h == v[2] \div 10
        r == v[2] % 10
        up == r > 5 \/ (r = 5 /\ h % 2 = 1)
        hh == IF up THEN h + 1 ELSE h
    IN  IF hh = 100 THEN <<v[1] + 1, 0>> ELSE <<v[1], hh * 10>>

\* round(4) of a percentage held in units of 0.00001
Round4(x) ==
    LET q == x \div 10
        r == x % 10
        up == r > 5 \/ (r = 5 /\ q % 2 = 1)
    IN  (IF up THEN q + 1 ELSE q) * 10

\* astype(int) of a share count held in tenths: the fraction is cut off
AsInt(x) == IF x >= 0 THEN (x \div 10) * 10 ELSE -(((-x) \div 10) * 10)

----------------------------------------------------------------------------
(* The upload handler, lines 111-197: validation, filters, pruning *)

Msg(level, text, cols) == [level |-> level, text |-> text, columns |-> cols]

\* the header taken as it is read
StripColumns_NoStrip(frame) == frame

\* df.columns.str.strip()
StripColumns(frame) ==
    [columns |-> [i \in DOMAIN frame.columns |-> strip(frame.columns[i])],
     rows |-> frame.rows]

missing_columns(frame) == Range(REQUIRED_COLUMNS) \ Range(frame.columns)

extra_columns(frame) == Range(frame.columns) \ Range(REQUIRED_COLUMNS)

\* Filter 1: REGULATION, stripped, is not '7(3)'
RegulationMask(frame) ==
    [r \in DOMAIN frame.rows |->
        strip(astype_str(Cell(frame, frame.rows[r], REGULATION))) # <<"7","(","3",")">>]

\* the category filter without the lower-casing
CategoryMask_CaseSensitive(frame) ==
    [r \in DOMAIN frame.rows |->
        LET c == Cell(frame, frame.rows[r], CATEGORY)
        IN  notna(c) /\ strip(astype_str(c)) \in
              { <<"p","r","o","m","o","t","e","r"," ","g","r","o","u","p">>,
                <<"p","r","o","m","o","t","e","r","s">> }]

\* Filter 2: CATEGORY OF PERSON is 'promoter group' or 'promoters'
CategoryMask(frame) ==
    [r \in DOMAIN frame.rows |->
        LET c == Cell(frame, frame.rows[r], CATEGORY)
        IN  notna(c) /\ lower(strip(astype_str(c))) \in
              { <<"p","r","o","m","o","t","e","r"," ","g","r","o","u","p">>,
                <<"p","r","o","m","o","t","e","r","s">> }]

\* the transaction filter with the first row of the frame always kept
TransactionMask_KeepsFirst(frame) ==
    [r \in DOMAIN frame.rows |->
        LET c == Cell(frame, frame.rows[r], TRANSACTION_TYPE)
        IN  r = 1 \/ (notna(c) /\ lower(strip(astype_str(c))) \in
                        { <<"b","u","y">>, <<"s","e","l","l">> })]

\* Filter 3: ACQUISITION/DISPOSAL TRANSACTION TYPE is 'buy' or 'sell'
TransactionMask(frame) ==
    [r \in DOMAIN frame.rows |->
        LET c == Cell(frame, frame.rows[r], TRANSACTION_TYPE)
        IN  notna(c) /\ lower(strip(astype_str(c))) \in
              { <<"b","u","y">>, <<"s","e","l","l">> }]

\* the mode filter with isna() | in place of notna() &
ModeMask_KeepsMissing(frame) ==
    [r \in DOMAIN frame.rows |->
        LET c == Cell(frame, frame.rows[r], MODE)
        IN  ~notna(c) \/ lower(strip(astype_str(c))) \in
              { <<"m","a","r","k","e","t"," ","s","a","l","e">>,
                <<"m","a","r","k","e","t"," ","p","u","r","c","h","a","s","e">> }]

\* Filter 4: MODE OF ACQUISITION is 'market sale' or 'market purchase'
ModeMask(frame) ==
    [r \in DOMAIN frame.rows |->
        LET c == Cell(frame, frame.rows[r], MODE)
        IN  notna(c) /\ lower(strip(astype_str(c))) \in
              { <<"m","a","r","k","e","t"," ","s","a","l","e">>,
                <<"m","a","r","k","e","t"," ","p","u","r","c","h","a","s","e">> }]

\* the security filter with the first row of the frame always removed
SecurityMask_SkipsFirst(frame) ==
    [r \in DOMAIN frame.rows |->
        LET c == Cell(frame, frame.rows[r], SECURITY_PRIOR)
        IN  r > 1 /\ notna(c) /\ contains(lower(strip(astype_str(c))),
              <<"e","q","u","i","t","y"," ","s","h","a","r","e">>)]

\* Filter 5: TYPE OF SECURITY (PRIOR) contains 'equity share'
SecurityMask(frame) ==
    [r \in DOMAIN frame.rows |->
        LET c == Cell(frame, frame.rows[r], SECURITY_PRIOR)
        IN  notna(c) /\ contains(lower(strip(astype_str(c))),
              <<"e","q","u","i","t","y"," ","s","h","a","r","e">>)]

\* the mask of filter stage k of lines 145-175
StageMask(k, frame) ==
    CASE k = 1 -> RegulationMask(frame)
      [] k = 2 -> CategoryMask(frame)
      [] k = 3 -> TransactionMask(frame)
      [] k = 4 -> ModeMask(frame)
      [] k = 5 -> SecurityMask(frame)

RECURSIVE ChainIn(_, _)
\* df = df[mask] for the stages named in order, one after the other
ChainIn(order, frame) ==
    IF order = <<>> THEN frame
    ELSE ChainIn(Tail(order), SelectRows(frame, StageMask(Head(order), frame)))

RECURSIVE CountsIn(_, _)
\* the row counts recorded after each of the stages named in order
CountsIn(order, frame) ==
    IF order = <<>> THEN <<>>
    ELSE LET next == SelectRows(frame, StageMask(Head(order), frame))
         IN  <<Len(next.rows)>> \o CountsIn(Tail(order), next)

\* lines 145-175: the five filter stages in the order of the script
Chain(frame) == ChainIn(<<1, 2, 3, 4, 5>>, frame)

\* df.drop(columns=existing_columns_to_remove)
DropColumns(frame) ==
    LET keep == TrueIdx([j \in DOMAIN frame.columns |->
                            frame.columns[j] \notin Range(columns_to_remove)], 1)
    IN  [columns |-> [k \in DOMAIN keep |-> frame.columns[keep[k]]],
         rows |-> [r \in DOMAIN frame.rows |->
                     [k \in DOMAIN keep |-> frame.rows[r][keep[k]]]]]

----------------------------------------------------------------------------
(* Ordering of text: sort_values('COMPANY') compares code points *)

Ordinal == <<" ","(",")","/","0","1","2","3","4","5","6","7","8","9",
             "A","B","C","D","E","F","G","H","I","J","K","L","M","N","O","P","Q","R","S","T","U","V","W","X","Y","Z",
             "a","b","c","d","e","f","g","h","i","j","k","l","m","n","o","p","q","r","s","t","u","v","w","x","y","z">>

RECURSIVE TextLess(_, _)
TextLess(a, b) ==
    IF b = <<>> THEN FALSE
    ELSE IF a = <<>> THEN TRUE
    ELSE IF Head(a) = Head(b) THEN TextLess(Tail(a), Tail(b))
    ELSE IndexOf(Ordinal, Head(a)) < IndexOf(Ordinal, Head(b))

\* a missing key sorts last
KeyLess(a, b) ==
    IF a = NaN THEN FALSE ELSE IF b = NaN THEN TRUE ELSE TextLess(a, b)

RECURSIVE SortedKeys(_)
\* the keys of the set S in ascending order
SortedKeys(S) ==
    IF S = {} THEN <<>>
    ELSE LET m == CHOOSE x \in S : \A y \in S : x = y \/ KeyLess(x, y)
         IN  <<m>> \o SortedKeys(S \ {m})

----------------------------------------------------------------------------
(* Totals, lines 344-435 *)

DELTA == <<"Shareholding Delta">>

\* lines 344-363: the four numeric columns are coerced and the delta column added
Coerced(frame) ==
    LET numeric == {SHARES, VALUE, PCT_PRIOR, PCT_POST}
        conv(row) == [j \in DOMAIN frame.columns |->
                        IF frame.columns[j] \in numeric THEN to_numeric(row[j]) ELSE row[j]]
        cols == Append(frame.columns, DELTA)
    IN  [columns |-> cols,
         rows |-> [r \in DOMAIN frame.rows |->
                    LET row == conv(frame.rows[r])
                    IN  Append(row, Minus(row[IndexOf(frame.columns, PCT_POST)],
                                          row[IndexOf(frame.columns, PCT_PRIOR)]))]]

\* the split into sides without the upper-casing
SideData_CaseSensitive(frame, side) ==
    SelectRows(frame, [r \in DOMAIN frame.rows |->
        strip(astype_str(Cell(frame, frame.rows[r], TRANSACTION_TYPE))) = side])

\* the split into sides without the strip
SideData_Unstripped(frame, side) ==
    SelectRows(frame, [r \in DOMAIN frame.rows |->
        upper(astype_str(Cell(frame, frame.rows[r], TRANSACTION_TYPE))) = side])

\* lines 366-368: the rows whose transaction type, stripped and upper-cased, is side
SideData(frame, side) ==
    SelectRows(frame, [r \in DOMAIN frame.rows |->
        upper(strip(astype_str(Cell(frame, frame.rows[r], TRANSACTION_TYPE)))) = side])

\* the rows of frame whose COMPANY is company
CompanyRows(frame, company) ==
    SelectRows(frame, [r \in DOMAIN frame.rows |->
        notna(company) /\ Cell(frame, frame.rows[r], COMPANY) = company])

\* groupby('COMPANY') keys: the companies of frame; rows without one are left out
GroupKeys(frame) == { c \in Range(Column(frame, COMPANY)) : notna(c) }

\* GroupBy.first(): the first cell of the column that is not missing
First(cells) ==
    IF \E i \in DOMAIN cells : notna(cells[i])
    THEN cells[CHOOSE i \in DOMAIN cells :
                   notna(cells[i]) /\ \A j \in 1..(i - 1) : ~notna(cells[j])]
    ELSE NaN

\* the side summary with the delta taken from the last row's post and the first
\* row's prior percentage
side_summary_EndToEnd(data) ==
    LET keys == SortedKeys(GroupKeys(data))
    IN  [i \in DOMAIN keys |->
           LET g == CompanyRows(data, keys[i])
           IN  [COMPANY |-> keys[i],
                SYMBOL |-> First(Column(g, SYMBOL)),
                Shares |-> SumCount(Column(g, SHARES)),
                Value |-> Num(SumMoney(Column(g, VALUE))),
                Delta |-> Minus(Column(g, PCT_POST)[Len(g.rows)], Column(g, PCT_PRIOR)[1])]]

\* lines 370-392: groupby('COMPANY').agg(first symbol, sums) of one side
side_summary(data) ==
    LET keys == SortedKeys(GroupKeys(data))
    IN  [i \in DOMAIN keys |->
           LET g == CompanyRows(data, keys[i])
           IN  [COMPANY |-> keys[i],
                SYMBOL |-> First(Column(g, SYMBOL)),
                Shares |-> SumCount(Column(g, SHARES)),
                Value |-> Num(SumMoney(Column(g, VALUE))),
                Delta |-> SumCount(Column(g, DELTA))]]

\* the row of a summary for company, or its absence
Lookup(summary, company) ==
    IF \E i \in DOMAIN summary : summary[i].COMPANY = company
    THEN <<summary[CHOOSE i \in DOMAIN summary : summary[i].COMPANY = company]>>
    ELSE <<>>

TotalsRow(company, symbol, bs, bv, bd, ss, sv, sd) ==
    [COMPANY |-> company, SYMBOL |-> symbol,
     TotalShareBuys |-> bs, TotalValueOfShareBuy |-> bv, DeltaShareholdingBuy |-> bd,
     TotalShareSells |-> ss, TotalValueOfShareSell |-> sv, DeltaShareholdingSell |-> sd]

\* fillna(0) on a count or percentage cell, and on a money cell
Fill0(c) == IF isnull(c) THEN Num(0) ELSE c
FillV0(c) == IF isnull(c) THEN Num(VZero) ELSE c

\* the two side summaries merged with an inner join: companies with one side only are lost
merged_summary_Inner(tdf) ==
    LET buy_summary == side_summary(SideData(tdf, <<"B","U","Y">>))
        sell_summary == side_summary(SideData(tdf, <<"S","E","L","L">>))
        keys == SortedKeys({buy_summary[i].COMPANY : i \in DOMAIN buy_summary}
                           \cap {sell_summary[i].COMPANY : i \in DOMAIN sell_summary})
        outer == [i \in DOMAIN keys |->
                    LET b == Lookup(buy_summary, keys[i])
                        s == Lookup(sell_summary, keys[i])
                    IN  TotalsRow(keys[i],
                          IF b # <<>> THEN b[1].SYMBOL ELSE NaN,
                          IF b # <<>> THEN b[1].Shares ELSE Num(0),
                          IF b # <<>> THEN b[1].Value ELSE Num(VZero),
                          IF b # <<>> THEN b[1].Delta ELSE Num(0),
                          IF s # <<>> THEN s[1].Shares ELSE Num(0),
                          IF s # <<>> THEN s[1].Value ELSE Num(VZero),
                          IF s # <<>> THEN s[1].Delta ELSE Num(0))]
        symbol_map(company) == First(Column(CompanyRows(tdf, company), SYMBOL))
    IN  IF buy_summary # <<>> /\ sell_summary # <<>>
        THEN IF \E i \in DOMAIN outer : outer[i].SYMBOL = NaN
             THEN [i \in DOMAIN outer |->
                     [outer[i] EXCEPT !.SYMBOL =
                         IF notna(symbol_map(outer[i].COMPANY))
                         THEN symbol_map(outer[i].COMPANY) ELSE @]]
             ELSE outer
        ELSE IF buy_summary # <<>>
        THEN [i \in DOMAIN buy_summary |->
                TotalsRow(buy_summary[i].COMPANY, buy_summary[i].SYMBOL,
                          buy_summary[i].Shares, buy_summary[i].Value, buy_summary[i].Delta,
                          Num(0), Num(VZero), Num(0))]
        ELSE [i \in DOMAIN sell_summary |->
                TotalsRow(sell_summary[i].COMPANY, sell_summary[i].SYMBOL,
                          Num(0), Num(VZero), Num(0),
                          sell_summary[i].Shares, sell_summary[i].Value, sell_summary[i].Delta)]

\* lines 394-420: the outer merge of the two side summaries on COMPANY
merged_summary(tdf) ==
    LET buy_summary == side_summary(SideData(tdf, <<"B","U","Y">>))
        sell_summary == side_summary(SideData(tdf, <<"S","E","L","L">>))
        keys == SortedKeys({buy_summary[i].COMPANY : i \in DOMAIN buy_summary}
                           \cup {sell_summary[i].COMPANY : i \in DOMAIN sell_summary})
        outer == [i \in DOMAIN keys |->
                    LET b == Lookup(buy_summary, keys[i])
                        s == Lookup(sell_summary, keys[i])
                    IN  TotalsRow(keys[i],
                          IF b # <<>> THEN b[1].SYMBOL ELSE NaN,
                          IF b # <<>> THEN b[1].Shares ELSE Num(0),
                          IF b # <<>> THEN b[1].Value ELSE Num(VZero),
                          IF b # <<>> THEN b[1].Delta ELSE Num(0),
                          IF s # <<>> THEN s[1].Shares ELSE Num(0),
                          IF s # <<>> THEN s[1].Value ELSE Num(VZero),
                          IF s # <<>> THEN s[1].Delta ELSE Num(0))]
        symbol_map(company) == First(Column(CompanyRows(tdf, company), SYMBOL))
    IN  IF buy_summary # <<>> /\ sell_summary # <<>>
        THEN IF \E i \in DOMAIN outer : outer[i].SYMBOL = NaN
             THEN [i \in DOMAIN outer |->
                     [outer[i] EXCEPT !.SYMBOL =
                         IF notna(symbol_map(outer[i].COMPANY))
                         THEN symbol_map(outer[i].COMPANY) ELSE @]]
             ELSE outer
        ELSE IF buy_summary # <<>>
        THEN [i \in DOMAIN buy_summary |->
                TotalsRow(buy_summary[i].COMPANY, buy_summary[i].SYMBOL,
                          buy_summary[i].Shares, buy_summary[i].Value, buy_summary[i].Delta,
                          Num(0), Num(VZero), Num(0))]
        ELSE [i \in DOMAIN sell_summary |->
                TotalsRow(sell_summary[i].COMPANY, sell_summary[i].SYMBOL,
                          Num(0), Num(VZero), Num(0),
                          sell_summary[i].Shares, sell_summary[i].Value, sell_summary[i].Delta)]

\* astype(int) raises on a column that holds an infinity ("Cannot convert
\* non-finite values (NA or inf) to integer")
astype_int_raises(cells) == \E i \in DOMAIN cells : cells[i].k = "inf"

\* line 427 alone: the buy counts cut to integers
formatted_buys(summary) ==
    [i \in DOMAIN summary |->
        [summary[i] EXCEPT !.TotalShareBuys = Num(AsInt(Fill0(@).n))]]

\* lines 424-432: sorted by company (the keys are already ascending), counts
\* cut to integers, values rounded to 2 decimals, deltas to 4
formatted_summary(summary) ==
    [i \in DOMAIN summary |->
        [summary[i] EXCEPT
            !.TotalShareBuys = Num(AsInt(Fill0(@).n)),
            !.TotalShareSells = Num(AsInt(Fill0(@).n)),
            !.TotalValueOfShareBuy = Num(Round2(FillV0(@).n)),
            !.TotalValueOfShareSell = Num(Round2(FillV0(@).n)),
            !.DeltaShareholdingBuy = Num(Round4(Fill0(@).n)),
            !.DeltaShareholdingSell = Num(Round4(Fill0(@).n))]]

Threshold == 9000000

\* the threshold as a strict comparison
MeetsThreshold_Strict(c) == ~isnull(c) /\ VLess(<<Threshold, 0>>, c.n)

\* value >= 9000000 on a money cell; a missing cell compares False
MeetsThreshold(c) == ~isnull(c) /\ c.n[1] >= Threshold

\* line 435 and line 588: the rows whose total buy value meets the threshold
above_threshold(summary) ==
    LET keep == TrueIdx([i \in DOMAIN summary |->
                            MeetsThreshold(summary[i].TotalValueOfShareBuy)], 1)
    IN  [k \in DOMAIN keep |-> summary[keep[k]]]

----------------------------------------------------------------------------
(* Max transactions, lines 438-576 *)

\* Series.max() of money cells that are not all missing
MaxMoney(cells) ==
    LET present == { cells[i].n : i \in { j \in DOMAIN cells : ~isnull(cells[j]) } }
    IN  CHOOSE v \in present : \A w \in present : ~VLess(v, w)

\* the largest of the finite share counts
MaxCount(cells) ==
    LET present == { cells[i].n : i \in { j \in DOMAIN cells : cells[j].k = "num" } }
    IN  CHOOSE v \in present : \A w \in present : w <= v

\* Series.max() of share counts that are not all missing
MaxShares(cells) ==
    IF Inf(1) \in Range(cells) THEN Inf(1)
    ELSE IF \E i \in DOMAIN cells : cells[i].k = "num" THEN Num(MaxCount(cells))
    ELSE Inf(-1)

AnyNotNull(cells) == \E i \in DOMAIN cells : ~isnull(cells[i])

\* the value of the first row that has one, whether or not it is the largest
max_value_FirstPresent(rows) ==
    LET cells == Column(rows, VALUE)
    IN  IF AnyNotNull(cells)
        THEN cells[CHOOSE i \in DOMAIN cells :
                      ~isnull(cells[i]) /\ \A j \in 1..(i - 1) : isnull(cells[j])]
        ELSE Null

\* lines 463-471: the maximum value of one company's rows on one side
max_value(rows) ==
    IF AnyNotNull(Column(rows, VALUE)) THEN Num(MaxMoney(Column(rows, VALUE))) ELSE Null

\* the first row with the most shares, whatever its value
max_shares_row_NoTieBreak(rows) ==
    IF ~AnyNotNull(Column(rows, SHARES)) THEN <<>>
    ELSE LET max_shares_value == MaxShares(Column(rows, SHARES))
             max_shares_rows ==
                 SelectRows(rows, [r \in DOMAIN rows.rows |->
                     Cell(rows, rows.rows[r], SHARES) = max_shares_value])
         IN  IF ~AnyNotNull(Column(max_shares_rows, VALUE)) THEN <<>>
             ELSE << max_shares_rows.rows[1] >>

\* lines 473-502: the row with the most shares; among those the one with the
\* highest value; among those the first.  <<>> when there is none.
max_shares_row(rows) ==
    IF ~AnyNotNull(Column(rows, SHARES)) THEN <<>>
    ELSE LET max_shares_value == MaxShares(Column(rows, SHARES))
             max_shares_rows ==
                 SelectRows(rows, [r \in DOMAIN rows.rows |->
                     Cell(rows, rows.rows[r], SHARES) = max_shares_value])
         IN  IF ~AnyNotNull(Column(max_shares_rows, VALUE)) THEN <<>>
             ELSE LET max_value_in_max_shares == MaxMoney(Column(max_shares_rows, VALUE))
                      max_shares_max_value_rows ==
                          SelectRows(max_shares_rows, [r \in DOMAIN max_shares_rows.rows |->
                              Cell(max_shares_rows, max_shares_rows.rows[r], VALUE)
                                  = Num(max_value_in_max_shares)])
                  IN  << max_shares_max_value_rows.rows[1] >>

\* the record of one company with the date taken from the row of the largest
\* value instead of the row of the most shares
max_transaction_DateOfMaxValue(tdf, company) ==
    LET company_buy == CompanyRows(SideData(tdf, <<"B","U","Y">>), company)
        company_sell == CompanyRows(SideData(tdf, <<"S","E","L","L">>), company)
        b == max_shares_row(company_buy)
        s == max_shares_row(company_sell)
        top(rows) == SelectRows(rows, [r \in DOMAIN rows.rows |->
                        Cell(rows, rows.rows[r], VALUE) = max_value(rows)]).rows[1]
    IN  [COMPANY |-> company,
         MaxBuyValue |-> IF company_buy.rows # <<>> THEN max_value(company_buy) ELSE Null,
         NumberOfMaxBuyShares |-> IF b # <<>> THEN Cell(tdf, b[1], SHARES) ELSE Null,
         MaxBuyDate |-> IF b # <<>> THEN Cell(tdf, top(company_buy), DATE_FROM) ELSE NaN,
         MaxSellValue |-> IF company_sell.rows # <<>> THEN max_value(company_sell) ELSE Null,
         NumberOfMaxSellShares |-> IF s # <<>> THEN Cell(tdf, s[1], SHARES) ELSE Null,
         MaxSellDate |-> IF s # <<>> THEN Cell(tdf, top(company_sell), DATE_FROM) ELSE NaN]

\* lines 452-558: the record of one company
max_transaction(tdf, company) ==
    LET company_buy == CompanyRows(SideData(tdf, <<"B","U","Y">>), company)
        company_sell == CompanyRows(SideData(tdf, <<"S","E","L","L">>), company)
        b == max_shares_row(company_buy)
        s == max_shares_row(company_sell)
    IN  [COMPANY |-> company,
         MaxBuyValue |-> IF company_buy.rows # <<>> THEN max_value(company_buy) ELSE Null,
         NumberOfMaxBuyShares |-> IF b # <<>> THEN Cell(tdf, b[1], SHARES) ELSE Null,
         MaxBuyDate |-> IF b # <<>> THEN Cell(tdf, b[1], DATE_FROM) ELSE NaN,
         MaxSellValue |-> IF company_sell.rows # <<>> THEN max_value(company_sell) ELSE Null,
         NumberOfMaxSellShares |-> IF s # <<>> THEN Cell(tdf, s[1], SHARES) ELSE Null,
         MaxSellDate |-> IF s # <<>> THEN Cell(tdf, s[1], DATE_FROM) ELSE NaN]

\* lines 449-562: one record per value of COMPANY (a missing company is one
\* of them), sorted by company
max_transactions(tdf) ==
    LET unique_companies == SortedKeys(Range(Column(tdf, COMPANY)))
    IN  [i \in DOMAIN unique_companies |-> max_transaction(tdf, unique_companies[i])]

\* line 566 alone, and lines 566-570: the coercion up to the share counts of
\* the buy side, and up to those of the sell side
coerced_buy_value(summary) ==
    [i \in DOMAIN summary |->
        [summary[i] EXCEPT !.MaxBuyValue = Num(Round2(FillV0(@).n))]]

coerced_to_sell_value(summary) ==
    [i \in DOMAIN summary |->
        [summary[i] EXCEPT
            !.MaxBuyValue = Num(Round2(FillV0(@).n)),
            !.NumberOfMaxBuyShares = Num(AsInt(Fill0(@).n)),
            !.MaxSellValue = Num(Round2(FillV0(@).n))]]

\* the display coercion without the fillna('N/A') of the two dates
display_coercion_DatesLeft(summary) ==
    [i \in DOMAIN summary |->
        [summary[i] EXCEPT
            !.MaxBuyValue = Num(Round2(FillV0(@).n)),
            !.NumberOfMaxBuyShares = Num(AsInt(Fill0(@).n)),
            !.MaxSellValue = Num(Round2(FillV0(@).n)),
            !.NumberOfMaxSellShares = Num(AsInt(Fill0(@).n))]]

\* lines 564-576: fillna and rounding for display
display_coercion(summary) ==
    [i \in DOMAIN summary |->
        [summary[i] EXCEPT
            !.MaxBuyValue = Num(Round2(FillV0(@).n)),
            !.NumberOfMaxBuyShares = Num(AsInt(Fill0(@).n)),
            !.MaxSellValue = Num(Round2(FillV0(@).n)),
            !.NumberOfMaxSellShares = Num(AsInt(Fill0(@).n)),
            !.MaxBuyDate = IF @ = NaN THEN <<"N","/","A">> ELSE @,
            !.MaxSellDate = IF @ = NaN THEN <<"N","/","A">> ELSE @]]

----------------------------------------------------------------------------
(* Combined summary, lines 578-652 *)

CombinedRow(company, t, m) ==
    [COMPANY |-> company,
     SYMBOL |-> IF t # <<>> THEN t[1].SYMBOL ELSE NaN,
     TotalShareBuys |-> IF t # <<>> THEN t[1].TotalShareBuys ELSE Null,
     TotalValueOfShareBuy |-> IF t # <<>> THEN t[1].TotalValueOfShareBuy ELSE Null,
     DeltaShareholdingBuy |-> IF t # <<>> THEN t[1].DeltaShareholdingBuy ELSE Null,
     TotalShareSells |-> IF t # <<>> THEN t[1].TotalShareSells ELSE Null,
     TotalValueOfShareSell |-> IF t # <<>> THEN t[1].TotalValueOfShareSell ELSE Null,
     DeltaShareholdingSell |-> IF t # <<>> THEN t[1].DeltaShareholdingSell ELSE Null,
     MaxBuyValue |-> IF m # <<>> THEN m[1].MaxBuyValue ELSE Null,
     NumberOfMaxBuyShares |-> IF m # <<>> THEN m[1].NumberOfMaxBuyShares ELSE Null,
     MaxBuyDate |-> IF m # <<>> THEN m[1].MaxBuyDate ELSE NaN,
     MaxSellValue |-> IF m # <<>> THEN m[1].MaxSellValue ELSE Null,
     NumberOfMaxSellShares |-> IF m # <<>> THEN m[1].NumberOfMaxSellShares ELSE Null,
     MaxSellDate |-> IF m # <<>> THEN m[1].MaxSellDate ELSE NaN,
     MaxAvgBuy |-> Null,
     MaxAvgSell |-> Null]

\* the outer merge without the threshold after it
merge_summaries_Unfiltered(totals, maxes) ==
    LET keys == SortedKeys({totals[i].COMPANY : i \in DOMAIN totals}
                           \cup {maxes[i].COMPANY : i \in DOMAIN maxes})
    IN  [i \in DOMAIN keys |->
            CombinedRow(keys[i], Lookup(totals, keys[i]), Lookup(maxes, keys[i]))]

\* lines 579-591: outer merge on COMPANY, the threshold again, sorted by company
merge_summaries(totals, maxes) ==
    LET keys == SortedKeys({totals[i].COMPANY : i \in DOMAIN totals}
                           \cup {maxes[i].COMPANY : i \in DOMAIN maxes})
        outer == [i \in DOMAIN keys |->
                    CombinedRow(keys[i], Lookup(totals, keys[i]), Lookup(maxes, keys[i]))]
    IN  above_threshold(outer)

\* value / shares rounded to 2 decimals (shares: whole shares, in tenths)
Quotient(v, shares) ==
    LET n == shares \div 10
        R == (v[1] % n) * 1000 + v[2]
        h == R \div (10 * n)
        rem == R % (10 * n)
        up == 2 * rem > 10 * n \/ (2 * rem = 10 * n /\ h % 2 = 1)
        hh == IF up THEN h + 1 ELSE h
    IN  IF hh = 100 THEN <<(v[1] \div n) + 1, 0>> ELSE <<v[1] \div n, hh * 10>>

\* the average left missing, not 0, without a positive share count
max_avg_NullWithoutShares(value, shares) ==
    IF ~isnull(shares) /\ shares.n > 0
    THEN IF isnull(value) THEN Null ELSE Num(Quotient(value.n, shares.n))
    ELSE Null

\* lines 595-598 and 603-606: 0 unless the share count is present and positive
max_avg(value, shares) ==
    IF ~isnull(shares) /\ shares.n > 0
    THEN IF isnull(value) THEN Null ELSE Num(Quotient(value.n, shares.n))
    ELSE Num(VZero)

\* lines 593-608
with_averages(summary) ==
    [i \in DOMAIN summary |->
        [summary[i] EXCEPT
            !.MaxAvgBuy = max_avg(summary[i].MaxBuyValue, summary[i].NumberOfMaxBuyShares),
            !.MaxAvgSell = max_avg(summary[i].MaxSellValue, summary[i].NumberOfMaxSellShares)]]

----------------------------------------------------------------------------
(* Uploaded tables: what pd.read_csv may hand to the script *)

MaxRows == 2

\* one row in the canonical column order; the columns the script never reads
\* hold missing cells
MkRow(symbol, company, regulation, category, security, pct_prior, shares,
      value, ttype, pct_post, date, mode) ==
    << symbol, company, regulation, NaN, category, security, NaN, pct_prior,
       NaN, shares, value, ttype, NaN, NaN, pct_post, date, NaN, NaN, mode,
       NaN, NaN, NaN, NaN, NaN, NaN, NaN, NaN, NaN, NaN >>

T_A == <<"A">>
T_B == <<"B">>
T_SYM_A == <<"A","A">>
T_SYM_A2 == <<"A","Z">>
T_SYM_B == <<"B","B">>
T_7_2 == <<"7","(","2",")">>
T_Promoters == <<"P","r","o","m","o","t","e","r","s">>
T_Buy == <<"B","u","y">>
T_Sell == <<"S","e","l","l">>
T_Market_Purchase == <<"M","a","r","k","e","t"," ","P","u","r","c","h","a","s","e">>
T_Market_Sale == <<"M","a","r","k","e","t"," ","S","a","l","e">>
T_Equity_Shares == <<"E","q","u","i","t","y"," ","S","h","a","r","e","s">>

\* the date cell of the row at position i of an upload
DateOf(i) == <<"d", <<"0","1","2","3","4","5","6","7","8","9">>[i + 1]>>

\* a row that passes the five filters, with the given text cells
TextRow(regulation, category, ttype, mode, security) ==
    MkRow(T_SYM_A, T_A, regulation, category, security, Num(100000), Num(100),
          Num(<<100, 0>>), ttype, Num(150000), DateOf(0), mode)

RegulationCells == { T_7_2, <<"7","(","3",")">>, <<" ","7","(","3",")"," ">>, NaN }
CategoryCells == { T_Promoters, <<" ","P","r","o","m","o","t","e","r"," ","G","R","O","U","P"," ">>,
                   <<"D","i","r","e","c","t","o","r">>, NaN }
TransactionCells == { T_Buy, <<"B","U","Y">>, <<" ","b","u","y"," ">>, <<"S","E","L","L"," ">>,
                      <<"P","l","e","d","g","e">>, NaN }
ModeCells == { T_Market_Purchase, <<" ","M","A","R","K","E","T"," ","P","U","R","C","H","A","S","E">>,
               T_Market_Sale, <<"O","f","f"," ","M","a","r","k","e","t">>, NaN }
SecurityCells == { T_Equity_Shares, <<" ","E","Q","U","I","T","Y"," ","S","H","A","R","E"," ">>,
                   <<"D","e","b","e","n","t","u","r","e","s">>, NaN }

\* rows that differ from a passing row in at most one filtered cell, and rows
\* that differ in all of them
FilterRows ==
    { TextRow(g, T_Promoters, T_Buy, T_Market_Purchase, T_Equity_Shares) : g \in RegulationCells }
    \cup { TextRow(T_7_2, c, T_Buy, T_Market_Purchase, T_Equity_Shares) : c \in CategoryCells }
    \cup { TextRow(T_7_2, T_Promoters, t, T_Market_Purchase, T_Equity_Shares) : t \in TransactionCells }
    \cup { TextRow(T_7_2, T_Promoters, T_Buy, m, T_Equity_Shares) : m \in ModeCells }
    \cup { TextRow(T_7_2, T_Promoters, T_Buy, T_Market_Purchase, s) : s \in SecurityCells }
    \cup { TextRow(NaN, <<" ","P","r","o","m","o","t","e","r"," ","G","R","O","U","P"," ">>,
                   <<"S","E","L","L"," ">>, T_Market_Sale,
                   <<" ","E","Q","U","I","T","Y"," ","S","H","A","R","E"," ">>),
           TextRow(NaN, NaN, NaN, NaN, NaN),
           TextRow(<<"7","(","3",")">>, <<"D","i","r","e","c","t","o","r">>,
                   <<"P","l","e","d","g","e">>, <<"O","f","f"," ","M","a","r","k","e","t">>,
                   <<"D","e","b","e","n","t","u","r","e","s">>) }

\* the date column of an upload names each row by its position
Dated(rows) ==
    [i \in DOMAIN rows |-> [rows[i] EXCEPT ![16] = IF @ = NaN THEN NaN ELSE DateOf(i)]]

Canonical(rows) == [columns |-> REQUIRED_COLUMNS, rows |-> Dated(rows)]

\* the frame read from a file whose header cells are hdrs: a column whose
\* stripped header is a required name holds that column of base, any other
\* column holds text
WithHeaders(base, hdrs) ==
    [columns |-> hdrs,
     rows |-> [r \in DOMAIN base.rows |->
                 [j \in DOMAIN hdrs |->
                    IF strip(hdrs[j]) \in Range(base.columns)
                    THEN base.rows[r][IndexOf(base.columns, strip(hdrs[j]))]
                    ELSE <<"x">>]]]

Reversed(s) == [i \in DOMAIN s |-> s[Len(s) + 1 - i]]

Padded(s) == [i \in DOMAIN s |-> IF i % 2 = 0 THEN <<" ">> \o s[i] \o <<"\t">>
                                               ELSE s[i] \o <<" ", " ">>]

Without(s, k) == SubSeq(s, 1, k - 1) \o SubSeq(s, k + 1, Len(s))

HeaderBase ==
    Canonical(<< TextRow(T_7_2, T_Promoters, T_Buy, T_Market_Purchase, T_Equity_Shares),
                 TextRow(<<"7","(","3",")">>, T_Promoters, T_Sell, T_Market_Sale, T_Equity_Shares) >>)

\* header rows: the required names in canonical or reversed order, bare or
\* padded with blanks, with an unknown column added, with required names left out
HeaderRows ==
    LET orders == { REQUIRED_COLUMNS, Reversed(REQUIRED_COLUMNS),
                    Padded(REQUIRED_COLUMNS), Padded(Reversed(REQUIRED_COLUMNS)) }
        extras == orders \cup { <<<<"EXTRA">>>> \o h : h \in orders }
                         \cup { h \o << <<" ", "EXTRA 2">>, <<"EXTRA">> >> : h \in orders }
    IN  extras
        \cup { Without(h, k) : h \in extras, k \in DOMAIN REQUIRED_COLUMNS }
        \cup { Without(Without(h, k), 1) : h \in orders, k \in {2, 10, 29} }

HeaderTables == { WithHeaders(HeaderBase, h) : h \in HeaderRows }

\* a row that passes the five filters, with the given company, side and numbers
NumRow(symbol, company, ttype, shares, value, pct_prior, pct_post) ==
    MkRow(symbol, company, T_7_2, T_Promoters, T_Equity_Shares, pct_prior, shares,
          value, ttype, pct_post, DateOf(0),
          IF ttype = T_Buy THEN T_Market_Purchase ELSE T_Market_Sale)

\* rows for the totals: two companies, both sides, whole and fractional share
\* counts, cells that are not numbers, a second symbol, a row without company
TotalsRows ==
    { NumRow(T_SYM_A, T_A, t, Num(100), Num(<<100, 0>>), Num(100000), Num(150000)) : t \in {T_Buy, T_Sell} }
    \cup { NumRow(T_SYM_A, T_A, t, Num(200), Num(<<200, 0>>), Num(150000), Num(180000)) : t \in {T_Buy, T_Sell} }
    \cup { NumRow(T_SYM_A2, T_A, t, Num(107), Num(<<50, 256>>), Num(200000), Num(210004)) : t \in {T_Buy, T_Sell} }
    \cup { NumRow(NaN, T_A, t, NonNumeric, Null, Null, Num(150000)) : t \in {T_Buy, T_Sell} }
    \cup { NumRow(T_SYM_B, T_B, t, Num(100), Num(<<50, 0>>), Num(300000), Num(250000)) : t \in {T_Buy, T_Sell} }
    \cup { NumRow(T_SYM_A, NaN, T_Buy, Num(100), Num(<<100, 0>>), Num(100000), Num(150000)) }

\* rows for the maxima: one company, both sides, share counts and values that
\* tie, differ or are missing, and one row of a second company
MaxRowsSet ==
    { NumRow(T_SYM_A, T_A, t, n, v, Num(100000), Num(150000)) :
        t \in {T_Buy, T_Sell},
        n \in {Null, Num(30), Num(50)},
        v \in {Null, Num(<<10, 0>>), Num(<<20, 0>>)} }
    \cup { NumRow(T_SYM_B, T_B, T_Sell, Num(50), Num(<<20, 0>>), Num(100000), Num(150000)) }

\* rows for the threshold: total buy values at, just below and far below 9,000,000
ThresholdRows ==
    { NumRow(T_SYM_A, T_A, T_Buy, Num(1000), Num(v), Num(100000), Num(150000)) :
        v \in { <<9000000, 0>>, <<8999999, 990>>, <<8999999, 996>>,
                <<4500000, 0>>, <<4499999, 990>> } }
    \cup { NumRow(T_SYM_A, T_A, T_Buy, n, Num(<<9000000, 0>>), Num(100000), Num(150000)) :
                n \in { Num(70), Null } }
    \cup { NumRow(T_SYM_A, T_A, T_Sell, Num(1000), Num(<<9000000, 0>>), Num(150000), Num(100000)) }
    \cup { NumRow(T_SYM_B, T_B, T_Buy, Num(1000), Num(v), Num(100000), Num(150000)) :
        v \in { <<9000000, 0>>, <<4500000, 0>> } }
    \cup { NumRow(T_SYM_B, T_B, T_Sell, Num(1000), Num(<<9000000, 0>>), Num(150000), Num(100000)) }

\* the worked examples: buy values 100 and 200 with a sell of 50; buys tied
\* at 500 shares with values 1000 and 2000 after a larger-value, smaller buy;
\* shareholdings 1.0 -> 1.5 and 1.5 -> 1.8 bought, 1.0 -> 1.5 and 2.0 -> 2.1 sold
ExampleTables ==
    { Canonical(<< NumRow(T_SYM_A, T_A, T_Buy, Num(100), Num(<<100, 0>>), Num(100000), Num(150000)),
                   NumRow(T_SYM_A, T_A, T_Buy, Num(200), Num(<<200, 0>>), Num(150000), Num(180000)),
                   NumRow(T_SYM_A, T_A, T_Sell, Num(50), Num(<<50, 0>>), Num(180000), Num(170000)) >>),
      Canonical(<< NumRow(T_SYM_A, T_A, T_Buy, Num(4000), Num(<<3000, 0>>), Num(100000), Num(150000)),
                   NumRow(T_SYM_A, T_A, T_Buy, Num(5000), Num(<<1000, 0>>), Num(100000), Num(150000)),
                   NumRow(T_SYM_A, T_A, T_Buy, Num(5000), Num(<<2000, 0>>), Num(100000), Num(150000)),
                   NumRow(T_SYM_A, T_A, T_Buy, Num(5000), Num(<<2000, 0>>), Num(100000), Num(150000)) >>),
      Canonical(<< NumRow(T_SYM_A, T_A, T_Buy, Num(100), Num(<<100, 0>>), Num(100000), Num(150000)),
                   NumRow(T_SYM_A, T_A, T_Buy, Num(100), Num(<<100, 0>>), Num(150000), Num(180000)),
                   NumRow(T_SYM_A, T_A, T_Sell, Num(100), Num(<<100, 0>>), Num(100000), Num(150000)),
                   NumRow(T_SYM_A, T_A, T_Sell, Num(100), Num(<<100, 0>>), Num(200000), Num(210000)) >>) }

\* uploads with share counts that read as infinities: one infinite buy, one
\* infinite sell, the two infinities on one side of a company that meets the
\* threshold, and on the sell side of a second company
FailureTables ==
    { Canonical(<< NumRow(T_SYM_A, T_A, T_Buy, Inf(1), Num(<<9000000, 0>>), Num(100000), Num(150000)) >>),
      Canonical(<< NumRow(T_SYM_A, T_A, T_Buy, Num(1000), Num(<<9000000, 0>>), Num(100000), Num(150000)),
                   NumRow(T_SYM_A, T_A, T_Sell, Inf(-1), Num(<<100, 0>>), Num(150000), Num(100000)) >>),
      Canonical(<< NumRow(T_SYM_A, T_A, T_Buy, Inf(1), Num(<<9000000, 0>>), Num(100000), Num(150000)),
                   NumRow(T_SYM_A, T_A, T_Buy, Inf(-1), Num(<<10, 0>>), Num(150000), Num(180000)) >>),
      Canonical(<< NumRow(T_SYM_A, T_A, T_Buy, Num(1000), Num(<<9000000, 0>>), Num(100000), Num(150000)),
                   NumRow(T_SYM_B, T_B, T_Sell, Inf(-1), Num(<<100, 0>>), Num(150000), Num(100000)),
                   NumRow(T_SYM_B, T_B, T_Sell, Inf(1), Num(<<200, 0>>), Num(150000), Num(100000)) >>) }

\* an upload with cells that are not numbers: buys of one company with every
\* number present, without a share count and a percentage after, and without a
\* value and a percentage before; a sell without percentages
CoercionTables ==
    { Canonical(<< NumRow(T_SYM_A, T_A, T_Buy, Num(1000), Num(<<100, 0>>), Num(100000), Num(150000)),
                   NumRow(T_SYM_A, T_A, T_Buy, NonNumeric, Num(<<70, 0>>), Num(100000), NonNumeric),
                   NumRow(T_SYM_A, T_A, T_Buy, Num(300), NonNumeric, Null, Num(200000)),
                   NumRow(T_SYM_A, T_A, T_Sell, Num(500), Num(<<40, 0>>), NonNumeric, Null) >>) }

\* uploads of a company that sells under one symbol and then buys under
\* another, alone and next to a company that only sells
SymbolTables ==
    { Canonical(<< NumRow(T_SYM_A, T_A, T_Sell, Num(1000), Num(<<100, 0>>), Num(150000), Num(100000)),
                   NumRow(T_SYM_A2, T_A, T_Buy, Num(1000), Num(<<100, 0>>), Num(100000), Num(150000)) >>),
      Canonical(<< NumRow(T_SYM_A, T_A, T_Sell, Num(1000), Num(<<100, 0>>), Num(150000), Num(100000)),
                   NumRow(T_SYM_A2, T_A, T_Buy, Num(1000), Num(<<100, 0>>), Num(100000), Num(150000)),
                   NumRow(T_SYM_B, T_B, T_Sell, Num(1000), Num(<<100, 0>>), Num(150000), Num(100000)) >>) }

\* an upload with a negative share count and a negative value: the buys of a
\* company sum to less than its largest buy
NegativeTables ==
    { Canonical(<< NumRow(T_SYM_A, T_A, T_Buy, Num(1000), Num(<<9000010, 0>>), Num(100000), Num(150000)),
                   NumRow(T_SYM_A, T_A, T_Buy, Num(-500), Num(<<-5, 0>>), Num(150000), Num(140000)) >>) }

\* the row sets uploads of up to MaxRows rows are drawn from
RowFamilies == { FilterRows, TotalsRows, MaxRowsSet, ThresholdRows }

\* the uploads given in full
FixedTables ==
    HeaderTables \cup ExampleTables \cup FailureTables \cup CoercionTables \cup SymbolTables
        \cup NegativeTables

----------------------------------------------------------------------------
(* The run *)

NoTable == <<>>

\* what st.dataframe shows in the summary section: nothing, the combined
\* summary or the totals alone
Shown(view, table) == [view |-> view, table |-> table]

Init ==
    /\ pc = "idle"
    /\ uploaded = NoFrame
    /\ df = NoFrame
    /\ counts = <<>>
    /\ session_df = NoFrame
    /\ messages = <<>>
    /\ shown_df = NoFrame
    /\ transactions_df = NoFrame
    /\ transactions_summary = NoTable
    /\ max_transactions_summary = NoTable
    /\ combined_summary = NoTable
    /\ shown_summary = Shown("none", NoTable)
    /\ history = <<>>

\* lines 112-115: a file is uploaded and read into the frame t
Read(t) ==
    /\ uploaded' = t
    /\ pc' = "validate"
    /\ UNCHANGED <<history, df, counts, session_df, messages, shown_df, transactions_df,
                   transactions_summary, max_transactions_summary,
                   combined_summary, shown_summary>>

\* an upload of up to MaxRows rows in the canonical column order
UploadRows ==
    /\ pc = "idle"
    /\ \E F \in RowFamilies : \E n \in 0..MaxRows : \E q \in [1..n -> F] :
          Read(Canonical(q))

\* an upload with one of the other headers, or one of the worked examples
UploadTable ==
    /\ pc = "idle"
    /\ \E t \in FixedTables : Read(t)

\* lines 833-848: no file is uploaded, the instructions are shown
ShowInstructions ==
    /\ pc = "idle"
    /\ messages' = << Msg("info", "Please upload a CSV file to get started.", {}),
                      Msg("info", "Required CSV Format", Range(REQUIRED_COLUMNS)) >>
    /\ pc' = "done"
    /\ UNCHANGED <<history, uploaded, df, counts, session_df, shown_df, transactions_df,
                   transactions_summary, max_transactions_summary,
                   combined_summary, shown_summary>>

\* the validation with the stored dataset cleared when a required column is missing
Validate_ClearsSession ==
    /\ pc = "validate"
    /\ LET f == StripColumns(uploaded)
       IN  IF missing_columns(f) # {}
           THEN /\ df' = f
                /\ messages' = << Msg("error", "Invalid CSV file! Missing required columns", missing_columns(f)),
                                  Msg("warning", "Required columns", Range(REQUIRED_COLUMNS)) >>
                /\ counts' = counts
                /\ pc' = "stopped"
                /\ session_df' = NoFrame
           ELSE /\ df' = SelectColumns(f, REQUIRED_COLUMNS)
                /\ session_df' = session_df
                /\ messages' = IF extra_columns(f) # {}
                               THEN << Msg("warning", "File contains extra columns that will be ignored", extra_columns(f)) >>
                               ELSE <<>>
                /\ counts' = << Len(f.rows) >>
                /\ pc' = "filter1"
    /\ UNCHANGED <<history, uploaded, shown_df, transactions_df,
                   transactions_summary, max_transactions_summary,
                   combined_summary, shown_summary>>

\* lines 117-143: the header is stripped and compared with REQUIRED_COLUMNS;
\* st.stop() ends the run when a required column is missing
Validate ==
    /\ pc = "validate"
    /\ LET f == StripColumns(uploaded)
       IN  IF missing_columns(f) # {}
           THEN /\ df' = f
                /\ messages' = << Msg("error", "Invalid CSV file! Missing required columns", missing_columns(f)),
                                  Msg("warning", "Required columns", Range(REQUIRED_COLUMNS)) >>
                /\ counts' = counts
                /\ pc' = "stopped"
           ELSE /\ df' = SelectColumns(f, REQUIRED_COLUMNS)
                /\ messages' = IF extra_columns(f) # {}
                               THEN << Msg("warning", "File contains extra columns that will be ignored", extra_columns(f)) >>
                               ELSE <<>>
                /\ counts' = << Len(f.rows) >>
                /\ pc' = "filter1"
    /\ UNCHANGED <<history, uploaded, session_df, shown_df, transactions_df,
                   transactions_summary, max_transactions_summary,
                   combined_summary, shown_summary>>

\* one filter stage: df = df[mask], then the row count is recorded
FilterStage(here, mask, next) ==
    /\ pc = here
    /\ df' = SelectRows(df, mask)
    /\ counts' = Append(counts, Len(df'.rows))
    /\ pc' = next
    /\ UNCHANGED <<history, uploaded, session_df, messages, shown_df, transactions_df,
                   transactions_summary, max_transactions_summary,
                   combined_summary, shown_summary>>

\* lines 146-148
Filter1 == FilterStage("filter1", RegulationMask(df), "filter2")
\* lines 151-155
Filter2 == FilterStage("filter2", CategoryMask(df), "filter3")
\* lines 157-161
Filter3 == FilterStage("filter3", TransactionMask(df), "filter4")
\* lines 163-167
Filter4 == FilterStage("filter4", ModeMask(df), "filter5")
\* lines 169-175
Filter5 == FilterStage("filter5", SecurityMask(df), "prune")

\* the pruning step with a dataset already stored in the session left in place
PruneAndShow_KeepsStored ==
    /\ pc = "prune"
    /\ df' = DropColumns(df)
    /\ session_df' = IF session_df = NoFrame THEN df' ELSE session_df
    /\ messages' = messages
          \o << Msg("success", "File uploaded successfully!", {}) >>
          \o (IF counts[1] # counts[6]
              THEN << Msg("info", "Filters Applied", {}) >> ELSE <<>>)
          \o (IF Len(df.rows) > 0
              THEN << Msg("info", "Showing rows and columns", {}) >>
              ELSE << Msg("warning", "No data to display. Please adjust your filters.", {}) >>)
    /\ shown_df' = IF Len(df.rows) > 0 THEN df' ELSE NoFrame
    /\ pc' = "analytics"
    /\ UNCHANGED <<history, uploaded, counts, transactions_df, transactions_summary,
                   max_transactions_summary, combined_summary, shown_summary>>

\* lines 177-305: the columns are pruned, the frame is stored in the session
\* and shown (with the widgets at their defaults: every column, no value filter)
PruneAndShow ==
    /\ pc = "prune"
    /\ df' = DropColumns(df)
    /\ session_df' = df'
    /\ messages' = messages
          \o << Msg("success", "File uploaded successfully!", {}) >>
          \o (IF counts[1] # counts[6]
              THEN << Msg("info", "Filters Applied", {}) >> ELSE <<>>)
          \o (IF Len(df.rows) > 0
              THEN << Msg("info", "Showing rows and columns", {}) >>
              ELSE << Msg("warning", "No data to display. Please adjust your filters.", {}) >>)
    /\ shown_df' = IF Len(df.rows) > 0 THEN df' ELSE NoFrame
    /\ pc' = "analytics"
    /\ UNCHANGED <<history, uploaded, counts, transactions_df, transactions_summary,
                   max_transactions_summary, combined_summary, shown_summary>>

\* lines 321-343: the first of the columns the totals need that df lacks
first_missing(frame) ==
    LET needed == << SHARES, VALUE, COMPANY, TRANSACTION_TYPE, PCT_PRIOR, PCT_POST, SYMBOL >>
        gone == TrueIdx([j \in DOMAIN needed |-> needed[j] \notin Range(frame.columns)], 1)
    IN  IF gone = <<>> THEN <<>> ELSE << needed[gone[1]] >>

\* lines 307-420: numbers are coerced and the two sides summed per company
Totals ==
    /\ pc = "analytics"
    /\ IF Len(df.rows) = 0
       THEN /\ messages' = Append(messages, Msg("info", "No data available for transactions analysis.", {}))
            /\ pc' = "stats"
            /\ UNCHANGED <<transactions_df, transactions_summary>>
       ELSE IF first_missing(df) # <<>>
       THEN /\ messages' = Append(messages, Msg("error", "Column not found in the data.", Range(first_missing(df))))
            /\ pc' = "stats"
            /\ UNCHANGED <<transactions_df, transactions_summary>>
       ELSE /\ transactions_df' = Coerced(df)
            /\ transactions_summary' = merged_summary(transactions_df')
            /\ pc' = "format"
            /\ UNCHANGED messages
    /\ UNCHANGED <<history, uploaded, df, counts, session_df, shown_df,
                   max_transactions_summary, combined_summary, shown_summary>>

\* lines 808-810: what the script says when the totals step raises
AnalyticsError ==
    << Msg("error", "Error generating transactions analytics", {}),
       Msg("info", "Please ensure the data contains valid numeric values for shares and amounts.", {}) >>

\* lines 422-432, 801-802 and 808-810: the totals are sorted and formatted; an
\* infinite share total makes astype(int) raise at line 427 or 428, and the
\* handler of line 808 reports it
Format ==
    /\ pc = "format"
    /\ IF Len(transactions_summary) = 0
       THEN /\ messages' = Append(messages, Msg("info", "No transaction data available to display.", {}))
            /\ pc' = "stats"
            /\ UNCHANGED transactions_summary
       ELSE IF astype_int_raises([i \in DOMAIN transactions_summary |->
                                    transactions_summary[i].TotalShareBuys])
       THEN /\ messages' = messages \o AnalyticsError
            /\ pc' = "stats"
            /\ UNCHANGED transactions_summary
       ELSE IF astype_int_raises([i \in DOMAIN transactions_summary |->
                                    transactions_summary[i].TotalShareSells])
       THEN /\ transactions_summary' = formatted_buys(transactions_summary)
            /\ messages' = messages \o AnalyticsError
            /\ pc' = "stats"
       ELSE /\ transactions_summary' = formatted_summary(transactions_summary)
            /\ pc' = "threshold"
            /\ UNCHANGED messages
    /\ UNCHANGED <<history, uploaded, df, counts, session_df, shown_df, transactions_df,
                   max_transactions_summary, combined_summary, shown_summary>>

\* lines 434-435
ThresholdTotals ==
    /\ pc = "threshold"
    /\ transactions_summary' = above_threshold(transactions_summary)
    /\ pc' = "max"
    /\ UNCHANGED <<history, uploaded, df, counts, session_df, messages, shown_df, transactions_df,
                   max_transactions_summary, combined_summary, shown_summary>>

\* lines 438-562
MaxTransactions ==
    /\ pc = "max"
    /\ max_transactions_summary' = max_transactions(transactions_df)
    /\ pc' = "coerce"
    /\ UNCHANGED <<history, uploaded, df, counts, session_df, messages, shown_df, transactions_df,
                   transactions_summary, combined_summary, shown_summary>>

\* line 781: what the script says when the max-transaction step raises
MaxWarning ==
    Msg("warning", "Could not calculate max transactions. Showing transactions summary only.", {})

\* the coercion step whose handler reports the failure and shows no table
DisplayCoercion_NoFallback ==
    /\ pc = "coerce"
    /\ IF astype_int_raises([i \in DOMAIN max_transactions_summary |->
                               max_transactions_summary[i].NumberOfMaxBuyShares])
       THEN /\ max_transactions_summary' = coerced_buy_value(max_transactions_summary)
            /\ messages' = Append(messages, MaxWarning)
            /\ pc' = "stats"
            /\ UNCHANGED shown_summary
       ELSE IF astype_int_raises([i \in DOMAIN max_transactions_summary |->
                                    max_transactions_summary[i].NumberOfMaxSellShares])
       THEN /\ max_transactions_summary' = coerced_to_sell_value(max_transactions_summary)
            /\ messages' = Append(messages, MaxWarning)
            /\ pc' = "stats"
            /\ UNCHANGED shown_summary
       ELSE /\ max_transactions_summary' = display_coercion(max_transactions_summary)
            /\ pc' = "merge"
            /\ UNCHANGED <<messages, shown_summary>>
    /\ UNCHANGED <<history, uploaded, df, counts, session_df, shown_df, transactions_df,
                   transactions_summary, combined_summary>>

\* lines 564-576 and 779-800: the maxima are coerced for display; an infinite
\* share count makes astype(int) raise at line 568 or 572, and the handler of
\* line 779 warns and shows the totals alone
DisplayCoercion ==
    /\ pc = "coerce"
    /\ IF astype_int_raises([i \in DOMAIN max_transactions_summary |->
                               max_transactions_summary[i].NumberOfMaxBuyShares])
       THEN /\ max_transactions_summary' = coerced_buy_value(max_transactions_summary)
            /\ messages' = Append(messages, MaxWarning)
            /\ shown_summary' = Shown("totals", transactions_summary)
            /\ pc' = "stats"
       ELSE IF astype_int_raises([i \in DOMAIN max_transactions_summary |->
                                    max_transactions_summary[i].NumberOfMaxSellShares])
       THEN /\ max_transactions_summary' = coerced_to_sell_value(max_transactions_summary)
            /\ messages' = Append(messages, MaxWarning)
            /\ shown_summary' = Shown("totals", transactions_summary)
            /\ pc' = "stats"
       ELSE /\ max_transactions_summary' = display_coercion(max_transactions_summary)
            /\ pc' = "merge"
            /\ UNCHANGED <<messages, shown_summary>>
    /\ UNCHANGED <<history, uploaded, df, counts, session_df, shown_df, transactions_df,
                   transactions_summary, combined_summary>>

\* lines 578-591
MergeSummaries ==
    /\ pc = "merge"
    /\ combined_summary' = merge_summaries(transactions_summary, max_transactions_summary)
    /\ pc' = "averages"
    /\ UNCHANGED <<history, uploaded, df, counts, session_df, messages, shown_df, transactions_df,
                   transactions_summary, max_transactions_summary, shown_summary>>

\* lines 593-778: the averages are added and the combined summary is shown
AveragesAndShow ==
    /\ pc = "averages"
    /\ combined_summary' = with_averages(combined_summary)
    /\ shown_summary' = Shown("combined", combined_summary')
    /\ pc' = "stats"
    /\ UNCHANGED <<history, uploaded, df, counts, session_df, messages, shown_df, transactions_df,
                   transactions_summary, max_transactions_summary>>

\* lines 815-827: the statistics expander ends the run
Statistics ==
    /\ pc = "stats"
    /\ pc' = "done"
    /\ UNCHANGED <<history, uploaded, df, counts, session_df, messages, shown_df, transactions_df,
                   transactions_summary, max_transactions_summary, combined_summary,
                   shown_summary>>

Next ==
    \/ UploadRows
    \/ UploadTable
    \/ ShowInstructions
    \/ Validate
    \/ Filter1
    \/ Filter2
    \/ Filter3
    \/ Filter4
    \/ Filter5
    \/ PruneAndShow
    \/ Totals
    \/ Format
    \/ ThresholdTotals
    \/ MaxTransactions
    \/ DisplayCoercion
    \/ MergeSummaries
    \/ AveragesAndShow
    \/ Statistics

Spec == Init /\ [][Next]_vars

----------------------------------------------------------------------------
(* A session: the script runs again from the top on every upload, and only
   st.session_state outlives a run *)

MaxRuns == 3

\* what a run leaves behind when it is over
Outcome ==
    [uploaded |-> uploaded, session |-> session_df,
     df |-> df, counts |-> counts, messages |-> messages, shown_df |-> shown_df,
     transactions_summary |-> transactions_summary,
     max_transactions_summary |-> max_transactions_summary,
     combined_summary |-> combined_summary, shown_summary |-> shown_summary]

\* the uploads of a session: the worked examples, a table above and one below
\* the threshold, a table with reordered, padded and unknown headers, and
\* tables that lack one or two required columns
SessionTables ==
    ExampleTables
    \cup { Canonical(<< NumRow(T_SYM_A, T_A, T_Buy, Num(1000), Num(<<9000000, 0>>), Num(100000), Num(150000)),
                        NumRow(T_SYM_B, T_B, T_Sell, Num(1000), Num(<<9000000, 0>>), Num(150000), Num(100000)) >>),
           HeaderBase,
           WithHeaders(HeaderBase, <<<<"EXTRA">>>> \o Padded(Reversed(REQUIRED_COLUMNS))),
           WithHeaders(HeaderBase, Without(REQUIRED_COLUMNS, 2)),
           WithHeaders(HeaderBase, Without(Without(Padded(REQUIRED_COLUMNS), 10), 1)) }

\* lines 112-115: one of these tables is uploaded
UploadInSession ==
    /\ pc = "idle"
    /\ \E t \in SessionTables : Read(t)

\* lines 100-109: a new upload (or its removal) starts the script again; its
\* variables and what it displayed start anew, st.session_state.df is kept
Rerun ==
    /\ pc \in {"done", "stopped"}
    /\ Len(history) < MaxRuns - 1
    /\ history' = Append(history, Outcome)
    /\ pc' = "idle"
    /\ uploaded' = NoFrame
    /\ df' = NoFrame
    /\ counts' = <<>>
    /\ messages' = <<>>
    /\ shown_df' = NoFrame
    /\ transactions_df' = NoFrame
    /\ transactions_summary' = NoTable
    /\ max_transactions_summary' = NoTable
    /\ combined_summary' = NoTable
    /\ shown_summary' = Shown("none", NoTable)
    /\ UNCHANGED session_df

SessionNext ==
    \/ UploadInSession
    \/ ShowInstructions
    \/ Validate
    \/ Filter1
    \/ Filter2
    \/ Filter3
    \/ Filter4
    \/ Filter5
    \/ PruneAndShow
    \/ Totals
    \/ Format
    \/ ThresholdTotals
    \/ MaxTransactions
    \/ DisplayCoercion
    \/ MergeSummaries
    \/ AveragesAndShow
    \/ Statistics
    \/ Rerun

SessionSpec == Init /\ [][SessionNext]_vars

----------------------------------------------------------------------------
(* The filter stages as a function of the table, applied in any order *)

\* the 120 orders of the five stages
Orders == { o \in [1..5 -> 1..5] : \A i, j \in 1..5 : o[i] = o[j] => i = j }

\* rows that fail no stage, one stage (by value or by a missing cell) or all
PermRows ==
    { TextRow(T_7_2, T_Promoters, T_Buy, T_Market_Purchase, T_Equity_Shares),
      TextRow(NaN, <<" ","P","r","o","m","o","t","e","r"," ","G","R","O","U","P"," ">>,
              <<"S","E","L","L"," ">>, T_Market_Sale,
              <<" ","E","Q","U","I","T","Y"," ","S","H","A","R","E"," ">>),
      TextRow(<<" ","7","(","3",")"," ">>, T_Promoters, T_Buy, T_Market_Purchase, T_Equity_Shares),
      TextRow(T_7_2, <<"D","i","r","e","c","t","o","r">>, T_Buy, T_Market_Purchase, T_Equity_Shares),
      TextRow(T_7_2, T_Promoters, NaN, T_Market_Purchase, T_Equity_Shares),
      TextRow(T_7_2, T_Promoters, T_Buy, <<"O","f","f"," ","M","a","r","k","e","t">>, T_Equity_Shares),
      TextRow(T_7_2, T_Promoters, T_Buy, T_Market_Purchase, NaN),
      TextRow(<<"7","(","3",")">>, <<"D","i","r","e","c","t","o","r">>,
              <<"P","l","e","d","g","e">>, <<"O","f","f"," ","M","a","r","k","e","t">>,
              <<"D","e","b","e","n","t","u","r","e","s">>) }

\* a table of up to MaxRows of these rows is read
ReadForStages ==
    /\ pc = "idle"
    /\ \E n \in 0..MaxRows : \E q \in [1..n -> PermRows] :
          /\ uploaded' = Canonical(q)
          /\ df' = uploaded'
          /\ counts' = << n >>
    /\ pc' = "stages"
    /\ UNCHANGED <<history, session_df, messages, shown_df, transactions_df, transactions_summary,
                   max_transactions_summary, combined_summary, shown_summary>>

\* the five stages of lines 145-175 are applied to it in one of the orders
StagesInOrder ==
    /\ pc = "stages"
    /\ \E order \in Orders :
          /\ df' = ChainIn(order, df)
          /\ counts' = counts \o CountsIn(order, df)
    /\ pc' = "staged"
    /\ UNCHANGED <<history, uploaded, session_df, messages, shown_df, transactions_df,
                   transactions_summary, max_transactions_summary, combined_summary,
                   shown_summary>>

StagesNext == ReadForStages \/ StagesInOrder

StagesSpec == Init /\ [][StagesNext]_vars

----------------------------------------------------------------------------
(* What the properties below speak of *)

\* the positions of the script after the last filter stage
Filtered == {"prune", "analytics", "format", "threshold", "max", "coerce",
             "merge", "averages", "stats", "done"}

\* the uploaded rows in the canonical column order
InputFrame == SelectColumns(StripColumns(uploaded), REQUIRED_COLUMNS)

\* text t, trimmed and lower-cased, is one of the words
IsOneOf(t, words) == t # NaN /\ lower(strip(t)) \in words

P_Regulation(f, row) ==
    LET t == Cell(f, row, REGULATION) IN t = NaN \/ strip(t) # <<"7","(","3",")">>
P_Category(f, row) ==
    IsOneOf(Cell(f, row, CATEGORY), { <<"p","r","o","m","o","t","e","r"," ","g","r","o","u","p">>,
                                      <<"p","r","o","m","o","t","e","r","s">> })
P_Transaction(f, row) ==
    IsOneOf(Cell(f, row, TRANSACTION_TYPE), { <<"b","u","y">>, <<"s","e","l","l">> })
P_Mode(f, row) ==
    IsOneOf(Cell(f, row, MODE), { <<"m","a","r","k","e","t"," ","s","a","l","e">>,
                                  <<"m","a","r","k","e","t"," ","p","u","r","c","h","a","s","e">> })
P_Security(f, row) ==
    LET t == Cell(f, row, SECURITY_PRIOR)
    IN  t # NaN /\ contains(lower(strip(t)), <<"e","q","u","i","t","y"," ","s","h","a","r","e">>)

AllFive(f, row) ==
    /\ P_Regulation(f, row)
    /\ P_Category(f, row)
    /\ P_Transaction(f, row)
    /\ P_Mode(f, row)
    /\ P_Security(f, row)

\* C1: after the five filter stages every row of the filtered dataset satisfies
\* all five predicates, and every uploaded row that satisfies all five is in it.
C1_FilteredIffAllFive ==
    pc = "prune" =>
        LET f == InputFrame
        IN  /\ \A i \in DOMAIN df.rows : AllFive(df, df.rows[i])
            /\ \A i \in DOMAIN f.rows :
                  AllFive(f, f.rows[i]) => f.rows[i] \in Range(df.rows)

\* some uploaded rows were kept and some were removed
C1_Witness ==
    /\ pc = "prune"
    /\ Len(df.rows) > 0
    /\ Len(df.rows) < Len(uploaded.rows)
    /\ \E i \in DOMAIN df.rows :
          Cell(df, df.rows[i], CATEGORY) = <<" ","P","r","o","m","o","t","e","r"," ","G","R","O","U","P"," ">>

\* the positions of the script after filter stage k
AfterStage(k) ==
    Filtered \cup { <<"filter2", "filter3", "filter4", "filter5">>[j] : j \in k..4 }

NoneMissing(col) == \A i \in DOMAIN df.rows : Cell(df, df.rows[i], col) # NaN

\* C2 as stated: a row whose tested cell is missing is removed at each of the
\* five stages, so no row without a REGULATION is left after the first one.
C2_MissingAlwaysExcluded ==
    /\ pc \in AfterStage(1) => NoneMissing(REGULATION)
    /\ pc \in AfterStage(2) => NoneMissing(CATEGORY)
    /\ pc \in AfterStage(3) => NoneMissing(TRANSACTION_TYPE)
    /\ pc \in AfterStage(4) => NoneMissing(MODE)
    /\ pc \in AfterStage(5) => NoneMissing(SECURITY_PRIOR)

\* C2, amended: a row whose tested cell is missing is removed at each of the
\* four inclusion stages (category, transaction type, mode, security type); the
\* regulation stage keeps every row whose REGULATION is missing.
C2_MissingExcludedButRegulation ==
    /\ pc \in AfterStage(2) => NoneMissing(CATEGORY)
    /\ pc \in AfterStage(3) => NoneMissing(TRANSACTION_TYPE)
    /\ pc \in AfterStage(4) => NoneMissing(MODE)
    /\ pc \in AfterStage(5) => NoneMissing(SECURITY_PRIOR)
    /\ pc = "filter2" =>
          LET f == InputFrame
          IN  \A i \in DOMAIN f.rows :
                  Cell(f, f.rows[i], REGULATION) = NaN => f.rows[i] \in Range(df.rows)

\* a row without REGULATION is shown in the filtered dataset, while a row of the
\* same upload without a category was removed
C2_Witness ==
    /\ pc = "analytics"
    /\ shown_df # NoFrame
    /\ \E i \in DOMAIN shown_df.rows : Cell(shown_df, shown_df.rows[i], REGULATION) = NaN
    /\ \E i \in DOMAIN InputFrame.rows : Cell(InputFrame, InputFrame.rows[i], CATEGORY) = NaN

\* the positions of the rows of the filtered dataset that belong to company c
\* and whose transaction type reads as word ('buy' or 'sell')
RowsOf(c, word) ==
    { i \in DOMAIN df.rows :
        /\ Cell(df, df.rows[i], COMPANY) = c
        /\ IsOneOf(Cell(df, df.rows[i], TRANSACTION_TYPE), {word}) }

Numeric(i, col) == Cell(df, df.rows[i], col).k = "num"

\* no row at the positions S holds an infinite share count
Bounded(S) == \A i \in S : Cell(df, df.rows[i], SHARES).k # "inf"

RECURSIVE TotalShares(_)
\* the sum of the numeric share counts of the rows at the positions S
TotalShares(S) ==
    IF S = {} THEN 0
    ELSE LET i == CHOOSE j \in S : TRUE
         IN  (IF Numeric(i, SHARES) THEN Cell(df, df.rows[i], SHARES).n ELSE 0)
                 + TotalShares(S \ {i})

RECURSIVE TotalValue(_)
\* the sum of the numeric values of the rows at the positions S
TotalValue(S) ==
    IF S = {} THEN <<0, 0>>
    ELSE LET i == CHOOSE j \in S : TRUE
             rest == TotalValue(S \ {i})
             v == Cell(df, df.rows[i], VALUE).n
         IN  IF Numeric(i, VALUE)
             THEN << rest[1] + v[1] + ((rest[2] + v[2]) \div 1000), (rest[2] + v[2]) % 1000 >>
             ELSE rest

RECURSIVE TotalDelta(_)
\* the sum of (percent post - percent prior) over the rows at the positions S
\* in which both percentages are numeric
TotalDelta(S) ==
    IF S = {} THEN 0
    ELSE LET i == CHOOSE j \in S : TRUE
         IN  (IF Numeric(i, PCT_POST) /\ Numeric(i, PCT_PRIOR)
              THEN Cell(df, df.rows[i], PCT_POST).n - Cell(df, df.rows[i], PCT_PRIOR).n
              ELSE 0) + TotalDelta(S \ {i})

\* the positions of the script once the totals are formatted
Formatted == {"threshold", "max", "coerce", "merge", "averages", "stats", "done"}

\* C3: every record of the totals holds, per side, the sums of the share counts
\* and of the values of the company's rows of the filtered dataset on that side
\* (as computed, and after formatting whenever the sum is a whole number of
\* shares or of hundredths), and 0 for the count, value and delta of a side on
\* which the company has no row; the share counts summed are finite.
C3_TotalsAreSums ==
    /\ pc = "format" =>
          \A k \in DOMAIN transactions_summary :
              LET t == transactions_summary[k]
                  b == RowsOf(t.COMPANY, <<"b","u","y">>)
                  s == RowsOf(t.COMPANY, <<"s","e","l","l">>)
              IN  /\ Bounded(b) => t.TotalShareBuys = Num(TotalShares(b))
                  /\ t.TotalValueOfShareBuy = Num(TotalValue(b))
                  /\ Bounded(s) => t.TotalShareSells = Num(TotalShares(s))
                  /\ t.TotalValueOfShareSell = Num(TotalValue(s))
                  /\ b = {} => t.DeltaShareholdingBuy = Num(0)
                  /\ s = {} => t.DeltaShareholdingSell = Num(0)
    /\ pc \in Formatted =>
          \A k \in DOMAIN transactions_summary :
              LET t == transactions_summary[k]
                  b == RowsOf(t.COMPANY, <<"b","u","y">>)
                  s == RowsOf(t.COMPANY, <<"s","e","l","l">>)
              IN  /\ (Bounded(b) /\ TotalShares(b) % 10 = 0) => t.TotalShareBuys = Num(TotalShares(b))
                  /\ TotalValue(b)[2] % 10 = 0 => t.TotalValueOfShareBuy = Num(TotalValue(b))
                  /\ (Bounded(s) /\ TotalShares(s) % 10 = 0) => t.TotalShareSells = Num(TotalShares(s))
                  /\ TotalValue(s)[2] % 10 = 0 => t.TotalValueOfShareSell = Num(TotalValue(s))
                  /\ b = {} => t.DeltaShareholdingBuy = Num(0)
                  /\ s = {} => t.DeltaShareholdingSell = Num(0)

\* buy values 100 and 200 and a sell value 50 give 300 and 50
C3_Witness ==
    /\ pc = "format"
    /\ Len(df.rows) = 3
    /\ \E k \in DOMAIN transactions_summary :
          /\ transactions_summary[k].TotalValueOfShareBuy = Num(<<300, 0>>)
          /\ transactions_summary[k].TotalValueOfShareSell = Num(<<50, 0>>)
          /\ transactions_summary[k].TotalShareBuys = Num(300)
          /\ transactions_summary[k].TotalShareSells = Num(50)

\* the named companies of the filtered dataset
Companies == { c \in Range(Column(df, COMPANY)) : c # NaN }

\* the records of the max-transaction summary that carry a company name
Named(summary) == { k \in DOMAIN summary : summary[k].COMPANY # NaN }

ValueOf(i) == Cell(df, df.rows[i], VALUE).n
SharesOf(i) == Cell(df, df.rows[i], SHARES).n
DateOfRow(i) == Cell(df, df.rows[i], DATE_FROM)

\* of the positions S, those whose row has a numeric value
Valued(S) == { i \in S : Numeric(i, VALUE) }

\* of the positions S, those whose value is the largest numeric value in S
TopValue(S) ==
    { i \in Valued(S) : \A j \in Valued(S) : ~VLess(ValueOf(i), ValueOf(j)) }

\* of the positions S, those whose share count is the largest numeric count in S
TopShares(S) ==
    { i \in S : Numeric(i, SHARES)
                /\ \A j \in S : Numeric(j, SHARES) => SharesOf(j) <= SharesOf(i) }

\* the first position of S in row order
Earliest(S) == CHOOSE i \in S : \A j \in S : i <= j

\* C4: when rows of a company on a side tie at the maximum share count and
\* have values, the reported share count is that maximum and the reported
\* date is that of the tied row with the highest value, the first of them in
\* row order when several tied rows share that value.
C4_MaxSharesTieBreak ==
    pc = "coerce" =>
        \A k \in Named(max_transactions_summary) :
            LET m == max_transactions_summary[k]
                b == TopShares(RowsOf(m.COMPANY, <<"b","u","y">>))
                s == TopShares(RowsOf(m.COMPANY, <<"s","e","l","l">>))
            IN  /\ Valued(b) # {} =>
                      /\ m.NumberOfMaxBuyShares = Num(SharesOf(Earliest(b)))
                      /\ m.MaxBuyDate = DateOfRow(Earliest(TopValue(b)))
                /\ Valued(s) # {} =>
                      /\ m.NumberOfMaxSellShares = Num(SharesOf(Earliest(s)))
                      /\ m.MaxSellDate = DateOfRow(Earliest(TopValue(s)))

\* three buys tie at 500 shares with values 1000, 2000 and 2000: 500 shares
\* and the date of the third row of the upload are reported
C4_Witness ==
    /\ pc = "coerce"
    /\ Len(df.rows) = 4
    /\ \E k \in DOMAIN max_transactions_summary :
          /\ max_transactions_summary[k].NumberOfMaxBuyShares = Num(5000)
          /\ max_transactions_summary[k].MaxBuyDate = DateOf(3)
          /\ Cardinality(TopShares(RowsOf(max_transactions_summary[k].COMPANY, <<"b","u","y">>))) = 3

\* C5: every company has a record, and its maximum value on a side is the
\* largest numeric value among the company's rows on that side, null (before
\* the display coercion) when the company has no row there or none with a value.
C5_MaxValueIsLargest ==
    pc = "coerce" =>
        /\ Companies = { max_transactions_summary[k].COMPANY :
                            k \in Named(max_transactions_summary) }
        /\ \A k \in Named(max_transactions_summary) :
              LET m == max_transactions_summary[k]
                  b == RowsOf(m.COMPANY, <<"b","u","y">>)
                  s == RowsOf(m.COMPANY, <<"s","e","l","l">>)
              IN  /\ m.MaxBuyValue = IF Valued(b) # {}
                                     THEN Num(ValueOf(Earliest(TopValue(b)))) ELSE Null
                  /\ m.MaxSellValue = IF Valued(s) # {}
                                      THEN Num(ValueOf(Earliest(TopValue(s)))) ELSE Null

\* a company whose second buy has the larger value, and whose sells have none
C5_Witness ==
    /\ pc = "coerce"
    /\ \E k \in Named(max_transactions_summary) :
          LET m == max_transactions_summary[k]
              b == RowsOf(m.COMPANY, <<"b","u","y">>)
          IN  /\ m.MaxBuyValue = Num(<<20, 0>>)
              /\ Cardinality(Valued(b)) = 2
              /\ Earliest(TopValue(b)) # Earliest(b)
              /\ m.MaxSellValue = Null

\* C6 as stated: the date of the row that holds a side's maximum value is
\* among the dates the record reports for that side.
C6_MaxValueDateReported ==
    pc = "coerce" =>
        \A k \in Named(max_transactions_summary) :
            LET m == max_transactions_summary[k]
                b == RowsOf(m.COMPANY, <<"b","u","y">>)
                s == RowsOf(m.COMPANY, <<"s","e","l","l">>)
            IN  /\ Valued(b) # {} => DateOfRow(Earliest(TopValue(b))) \in {m.MaxBuyDate}
                /\ Valued(s) # {} => DateOfRow(Earliest(TopValue(s))) \in {m.MaxSellDate}

\* C6, amended: a record reports one date per side, the date of the
\* max-by-shares row, also next to the maximum value; it is missing when no row
\* with the most shares has a value, whatever row holds the maximum value (the
\* share counts compared are finite).
C6_SingleDateOfMaxShares ==
    pc = "coerce" =>
        \A k \in Named(max_transactions_summary) :
            LET m == max_transactions_summary[k]
                b == RowsOf(m.COMPANY, <<"b","u","y">>)
                s == RowsOf(m.COMPANY, <<"s","e","l","l">>)
            IN  /\ Bounded(b) =>
                       m.MaxBuyDate = IF Valued(TopShares(b)) # {}
                                      THEN DateOfRow(Earliest(TopValue(TopShares(b)))) ELSE NaN
                /\ Bounded(s) =>
                       m.MaxSellDate = IF Valued(TopShares(s)) # {}
                                       THEN DateOfRow(Earliest(TopValue(TopShares(s)))) ELSE NaN

\* the maximum value 300 is that of the first row, the date reported is that
\* of the third row
C6_Witness ==
    /\ pc = "coerce"
    /\ \E k \in Named(max_transactions_summary) :
          LET m == max_transactions_summary[k]
              b == RowsOf(m.COMPANY, <<"b","u","y">>)
          IN  /\ m.MaxBuyValue = Num(<<3000, 0>>)
              /\ Earliest(TopValue(b)) = 1
              /\ DateOfRow(1) = DateOf(1)
              /\ m.MaxBuyDate = DateOf(3)

\* the positions of the script once the maxima are coerced for display
AfterCoercion == {"merge", "averages", "stats", "done"}

\* C7: a company without buy rows has null max-buy value, share count and date
\* before the display coercion, and 0, 0 and 'N/A' once it has run to its end;
\* likewise the max-sell fields of a company without sell rows.
C7_NullThenZero ==
    /\ pc = "coerce" =>
          \A k \in Named(max_transactions_summary) :
              LET m == max_transactions_summary[k]
              IN  /\ RowsOf(m.COMPANY, <<"b","u","y">>) = {} =>
                        /\ m.MaxBuyValue = Null
                        /\ m.NumberOfMaxBuyShares = Null
                        /\ m.MaxBuyDate = NaN
                  /\ RowsOf(m.COMPANY, <<"s","e","l","l">>) = {} =>
                        /\ m.MaxSellValue = Null
                        /\ m.NumberOfMaxSellShares = Null
                        /\ m.MaxSellDate = NaN
    /\ (pc \in AfterCoercion /\ MaxWarning \notin Range(messages)) =>
          \A k \in Named(max_transactions_summary) :
              LET m == max_transactions_summary[k]
              IN  /\ RowsOf(m.COMPANY, <<"b","u","y">>) = {} =>
                        /\ m.MaxBuyValue = Num(<<0, 0>>)
                        /\ m.NumberOfMaxBuyShares = Num(0)
                        /\ m.MaxBuyDate = <<"N","/","A">>
                  /\ RowsOf(m.COMPANY, <<"s","e","l","l">>) = {} =>
                        /\ m.MaxSellValue = Num(<<0, 0>>)
                        /\ m.NumberOfMaxSellShares = Num(0)
                        /\ m.MaxSellDate = <<"N","/","A">>

\* after the coercion: a company with sells only next to a company with buys only
C7_Witness ==
    /\ pc = "merge"
    /\ \E k \in Named(max_transactions_summary) :
          /\ RowsOf(max_transactions_summary[k].COMPANY, <<"b","u","y">>) = {}
          /\ max_transactions_summary[k].MaxBuyDate = <<"N","/","A">>
          /\ max_transactions_summary[k].MaxSellValue = Num(<<20, 0>>)
    /\ \E k \in Named(max_transactions_summary) :
          /\ RowsOf(max_transactions_summary[k].COMPANY, <<"s","e","l","l">>) = {}
          /\ max_transactions_summary[k].NumberOfMaxSellShares = Num(0)

\* the companies of the records of a summary
CompaniesIn(summary) == { summary[k].COMPANY : k \in DOMAIN summary }

\* C8 as stated: a company is in the combined summary exactly when the sum of
\* its buy values is at least 9,000,000.
C8_ThresholdOnTotal ==
    pc = "averages" =>
        CompaniesIn(combined_summary) =
            { c \in Companies : TotalValue(RowsOf(c, <<"b","u","y">>))[1] >= 9000000 }

\* C8, amended: a company is in the combined summary exactly when the sum of
\* its buy values, rounded to 2 decimals as the totals report it, is at least
\* 9,000,000; a company without buy rows is never in it.
C8_ThresholdOnRoundedTotal ==
    /\ pc = "averages" =>
          /\ CompaniesIn(combined_summary) =
                { c \in Companies :
                    Round2(TotalValue(RowsOf(c, <<"b","u","y">>)))[1] >= 9000000 }
          /\ \A c \in CompaniesIn(combined_summary) : RowsOf(c, <<"b","u","y">>) # {}
    /\ (pc = "stats" /\ shown_summary.view = "combined") =>
          CompaniesIn(shown_summary.table) =
              { c \in Companies :
                  Round2(TotalValue(RowsOf(c, <<"b","u","y">>)))[1] >= 9000000 }

\* a total of exactly 9,000,000 is kept next to a total of 8,999,999.99 that is not
C8_Witness ==
    /\ pc = "averages"
    /\ \E k \in DOMAIN combined_summary :
          /\ combined_summary[k].TotalValueOfShareBuy = Num(<<9000000, 0>>)
          /\ TotalValue(RowsOf(combined_summary[k].COMPANY, <<"b","u","y">>)) = <<9000000, 0>>
    /\ \E c \in Companies \ CompaniesIn(combined_summary) :
          TotalValue(RowsOf(c, <<"b","u","y">>)) = <<8999999, 990>>

\* C9: the shareholding delta of a company on a side is the sum over its rows
\* on that side of (percent post - percent prior), as computed, and after
\* formatting whenever that sum has no more than 4 decimals.
C9_DeltaIsSumOfRowDeltas ==
    /\ pc = "format" =>
          \A k \in DOMAIN transactions_summary :
              LET t == transactions_summary[k]
              IN  /\ t.DeltaShareholdingBuy = Num(TotalDelta(RowsOf(t.COMPANY, <<"b","u","y">>)))
                  /\ t.DeltaShareholdingSell = Num(TotalDelta(RowsOf(t.COMPANY, <<"s","e","l","l">>)))
    /\ pc \in Formatted =>
          \A k \in DOMAIN transactions_summary :
              LET t == transactions_summary[k]
                  b == TotalDelta(RowsOf(t.COMPANY, <<"b","u","y">>))
                  s == TotalDelta(RowsOf(t.COMPANY, <<"s","e","l","l">>))
              IN  /\ b % 10 = 0 => t.DeltaShareholdingBuy = Num(b)
                  /\ s % 10 = 0 => t.DeltaShareholdingSell = Num(s)

\* buys 1.0 -> 1.5 and 1.5 -> 1.8 give 0.8, sells 1.0 -> 1.5 and 2.0 -> 2.1 give 0.6
C9_Witness ==
    /\ pc = "threshold"
    /\ Len(df.rows) = 4
    /\ Cell(df, df.rows[3], PCT_PRIOR) = Num(100000)
    /\ Cell(df, df.rows[4], PCT_POST) = Num(210000)
    /\ \E k \in DOMAIN transactions_summary :
          /\ transactions_summary[k].DeltaShareholdingBuy = Num(80000)
          /\ transactions_summary[k].DeltaShareholdingSell = Num(60000)

\* the required columns that are not among the trimmed headers of the upload
Lacking == Range(REQUIRED_COLUMNS) \ { strip(uploaded.columns[j]) : j \in DOMAIN uploaded.columns }

\* C10: once an upload is validated, the run is stopped exactly when a required
\* column is not among its trimmed headers, and the error then names exactly
\* the required columns that are not.
C10_RejectsAndNamesMissing ==
    (uploaded # NoFrame /\ pc \notin {"idle", "validate"}) =>
        /\ pc = "stopped" <=> Lacking # {}
        /\ pc = "stopped" =>
              /\ messages[1].level = "error"
              /\ messages[1].columns = Lacking

\* an upload with padded headers that lacks two required columns is stopped
C10_Witness ==
    /\ pc = "stopped"
    /\ Cardinality(Lacking) = 2
    /\ messages[1].columns = Lacking
    /\ \E j \in DOMAIN uploaded.columns : strip(uploaded.columns[j]) # uploaded.columns[j]

\* the position in the uploaded header of the column whose trimmed name is col
Where(col) == CHOOSE j \in DOMAIN uploaded.columns : strip(uploaded.columns[j]) = col

\* the trimmed headers of the upload that are not required columns
Unrecognized ==
    { strip(uploaded.columns[j]) : j \in DOMAIN uploaded.columns } \ Range(REQUIRED_COLUMNS)

\* C12: an upload that has all 29 required columns, in any order and with any
\* other columns, passes validation; the table handed to the filters has
\* exactly the 29 required columns in canonical order, every row holding the
\* uploaded row's cells of those columns; other columns give a warning only.
C12_AcceptedInCanonicalForm ==
    /\ pc = "stopped" => (uploaded = NoFrame \/ Lacking # {})
    /\ pc = "filter1" =>
          /\ df.columns = REQUIRED_COLUMNS
          /\ Len(df.rows) = Len(uploaded.rows)
          /\ \A r \in DOMAIN df.rows : \A j \in DOMAIN REQUIRED_COLUMNS :
                df.rows[r][j] = uploaded.rows[r][Where(REQUIRED_COLUMNS[j])]
          /\ messages = IF Unrecognized = {} THEN <<>>
                        ELSE << Msg("warning", "File contains extra columns that will be ignored",
                                    Unrecognized) >>

\* an upload with the required columns in reverse order, padded headers and
\* two other columns is accepted with a warning
C12_Witness ==
    /\ pc = "filter1"
    /\ Cardinality(Unrecognized) = 2
    /\ Len(messages) = 1
    /\ strip(uploaded.columns[1]) = REQUIRED_COLUMNS[29]
    /\ uploaded.columns[2] # strip(uploaded.columns[2])
    /\ df.columns = REQUIRED_COLUMNS
    /\ Len(df.rows) = 2

\* C14: the filtered dataset is a fixed point of the five filter stages: run
\* on it again, before or after the pruning of columns, they keep every row in
\* its place.
C14_FilteredIsFixedPoint ==
    /\ pc = "prune" => Chain(df) = df
    /\ pc = "analytics" => Chain(session_df) = session_df

\* a filtered dataset that kept one of two uploaded rows, with padded cells
C14_Witness ==
    /\ pc = "prune"
    /\ Len(uploaded.rows) = 2
    /\ Len(df.rows) = 1
    /\ Cell(df, df.rows[1], SECURITY_PRIOR) = <<" ","E","Q","U","I","T","Y"," ","S","H","A","R","E"," ">>
    /\ Chain(df).rows = df.rows

\* the rows of the analysed dataset whose transaction type reads as word
Reading(word) ==
    SelectRows(transactions_df,
               [r \in DOMAIN transactions_df.rows |->
                   IsOneOf(Cell(transactions_df, transactions_df.rows[r], TRANSACTION_TYPE), {word})])

\* C15: once the totals are computed, the buy subset of the aggregators is the
\* rows whose transaction type, trimmed and without regard to case, is 'buy',
\* the sell subset those that read 'sell'; every row of the filtered dataset
\* is in exactly one of the two.
C15_EveryRowOnOneSide ==
    pc = "format" =>
        LET buy_data == SideData(transactions_df, <<"B","U","Y">>)
            sell_data == SideData(transactions_df, <<"S","E","L","L">>)
        IN  /\ buy_data = Reading(<<"b","u","y">>)
            /\ sell_data = Reading(<<"s","e","l","l">>)
            /\ Len(buy_data.rows) + Len(sell_data.rows) = Len(df.rows)
            /\ \A r \in DOMAIN transactions_df.rows :
                  LET t == Cell(transactions_df, transactions_df.rows[r], TRANSACTION_TYPE)
                  IN  IsOneOf(t, {<<"b","u","y">>}) # IsOneOf(t, {<<"s","e","l","l">>})

\* ' buy ' and 'SELL ' passed the filter and are on the buy and the sell side
C15_Witness ==
    /\ pc = "format"
    /\ Len(df.rows) = 2
    /\ Cell(df, df.rows[1], TRANSACTION_TYPE) = <<" ","b","u","y"," ">>
    /\ Cell(df, df.rows[2], TRANSACTION_TYPE) = <<"S","E","L","L"," ">>
    /\ Len(SideData(transactions_df, <<"B","U","Y">>).rows) = 1
    /\ Len(SideData(transactions_df, <<"S","E","L","L">>).rows) = 1

\* the named companies whose total buy value, rounded to 2 decimals, meets the threshold
Material == { c \in Companies : Round2(TotalValue(RowsOf(c, <<"b","u","y">>)))[1] >= 9000000 }

\* the positions of the script between the totals and their display
WithTotals == {"format", "threshold", "max", "coerce", "merge", "averages"}

\* C16 as stated: the totals hold exactly one record for every company of the
\* filtered dataset at every step up to their display; only the combined
\* summary is cut at the threshold.
C16_TotalsHoldEveryCompany ==
    pc \in WithTotals =>
        /\ CompaniesIn(transactions_summary) = Companies
        /\ Len(transactions_summary) = Cardinality(Companies)

\* C16, amended: as computed and formatted the totals hold exactly one record
\* for every named company of the filtered dataset, sell-only companies and
\* companies below the threshold included; the threshold is then applied to
\* the totals themselves, before the maxima are computed, and they hold one
\* record for every company whose rounded total buy value is at least 9,000,000.
C16_TotalsThenThreshold ==
    /\ pc \in {"format", "threshold"} =>
          /\ CompaniesIn(transactions_summary) = Companies
          /\ Len(transactions_summary) = Cardinality(Companies)
    /\ pc \in {"max", "coerce", "merge", "averages"} =>
          /\ CompaniesIn(transactions_summary) = Material
          /\ Len(transactions_summary) = Cardinality(Material)

\* two companies in the filtered dataset, one of them with sells only, and one
\* record left in the totals when the maxima are computed
C16_Witness ==
    /\ pc = "max"
    /\ Cardinality(Companies) = 2
    /\ \E c \in Companies : RowsOf(c, <<"b","u","y">>) = {}
    /\ Len(transactions_summary) = 1

\* the largest numeric share count among the rows at the positions S
LargestShares(S) == SharesOf(Earliest(TopShares(S)))

\* C17: for every company and side with at least one numeric share count, the
\* reported number of max shares is the largest share count on that side,
\* whether or not the rows at that count have a value.
C17_MaxSharesWithoutValue ==
    pc = "coerce" =>
        \A k \in Named(max_transactions_summary) :
            LET m == max_transactions_summary[k]
                b == RowsOf(m.COMPANY, <<"b","u","y">>)
                s == RowsOf(m.COMPANY, <<"s","e","l","l">>)
            IN  /\ TopShares(b) # {} => m.NumberOfMaxBuyShares = Num(LargestShares(b))
                /\ TopShares(s) # {} => m.NumberOfMaxSellShares = Num(LargestShares(s))

\* avg is value / shares to 2 decimals: avg times the number of shares is
\* within half a hundredth per share of value (amounts as whole and thousandths,
\* shares in tenths)
IsQuotient(avg, value, shares) ==
    LET n == shares.n \div 10
        whole == avg.n[1] * n + ((avg.n[2] * n) \div 1000)
        part == (avg.n[2] * n) % 1000
        d == (value.n[1] - whole) * 1000 + (value.n[2] - part)
    IN  /\ avg.k = "num"
        /\ avg.n[2] % 10 = 0
        /\ -5 * n <= d /\ d <= 5 * n

\* C18: in every row of the combined summary Max Avg Buy is Max Buy Value
\* divided by Number of Max Buy Shares, to 2 decimals, when that number is
\* positive, and 0 when it is zero or missing; likewise Max Avg Sell.
C18_MaxAvgIsQuotientOrZero ==
    (pc = "stats" /\ shown_summary.view = "combined") =>
        \A k \in DOMAIN combined_summary :
            LET r == combined_summary[k]
            IN  /\ IF r.NumberOfMaxBuyShares.k = "num" /\ r.NumberOfMaxBuyShares.n > 0
                   THEN IsQuotient(r.MaxAvgBuy, r.MaxBuyValue, r.NumberOfMaxBuyShares)
                   ELSE r.MaxAvgBuy = Num(<<0, 0>>)
                /\ IF r.NumberOfMaxSellShares.k = "num" /\ r.NumberOfMaxSellShares.n > 0
                   THEN IsQuotient(r.MaxAvgSell, r.MaxSellValue, r.NumberOfMaxSellShares)
                   ELSE r.MaxAvgSell = Num(<<0, 0>>)

\* 9,000,000 for 7 shares gives 1,285,714.29, and the side without shares gives 0
C18_Witness ==
    /\ pc = "stats"
    /\ shown_summary.view = "combined"
    /\ \E k \in DOMAIN combined_summary :
          /\ combined_summary[k].NumberOfMaxBuyShares = Num(70)
          /\ combined_summary[k].MaxAvgBuy = Num(<<1285714, 290>>)
          /\ combined_summary[k].NumberOfMaxSellShares = Num(0)
          /\ combined_summary[k].MaxAvgSell = Num(<<0, 0>>)

\* C13: whatever the order in which the five stages are applied to a table,
\* the rows left are those the order of the script leaves; the counts recorded
\* after each stage may differ.
C13_AnyOrderSameRows ==
    pc = "staged" => df = Chain(uploaded)

\* an order that leaves the same row as the script's order after other counts
C13_Witness ==
    /\ pc = "staged"
    /\ Len(uploaded.rows) = 2
    /\ Len(df.rows) = 1
    /\ counts # <<2>> \o CountsIn(<<1, 2, 3, 4, 5>>, uploaded)
    /\ counts[6] = 1

\* st.session_state.df as the current run found it
StoredBefore == IF history = <<>> THEN NoFrame ELSE history[Len(history)].session

\* C11: in a run whose upload lacks a required column the script stops at the
\* validation: no filter stage has recorded a count, nothing is published as
\* filtered dataset or summary, the stored dataset is the one the run found,
\* and the only step that follows is the start of the next run, which leaves
\* the stored dataset as it is.
C11_SchemaErrorHalts ==
    /\ []((uploaded # NoFrame /\ pc \notin {"idle", "validate"} /\ Lacking # {}) =>
             /\ pc = "stopped"
             /\ counts = <<>>
             /\ shown_df = NoFrame
             /\ shown_summary = Shown("none", NoTable)
             /\ transactions_summary = NoTable
             /\ max_transactions_summary = NoTable
             /\ combined_summary = NoTable
             /\ session_df = StoredBefore)
    /\ [][pc = "stopped" => (pc' = "idle" /\ session_df' = session_df)]_vars

\* an upload without two required columns is rejected in a session that holds
\* the dataset of an earlier upload
C11_Witness ==
    /\ pc = "stopped"
    /\ Cardinality(Lacking) = 2
    /\ history # <<>>
    /\ session_df # NoFrame
    /\ Len(session_df.rows) = 3

\* what a run produced, without the upload and the stored dataset
Produced(o) ==
    <<o.df, o.counts, o.messages, o.shown_df, o.transactions_summary,
      o.max_transactions_summary, o.combined_summary, o.shown_summary>>

\* C19: what a run produces depends on its upload alone: a run that has
\* filtered its upload has stored that filtered dataset, whatever the session
\* held before, and a run that is over has produced exactly what every earlier
\* run of the session produced for the same upload.
C19_RunsAreIsolated ==
    /\ (pc \in {"analytics", "stats", "done"} /\ uploaded # NoFrame) =>
          /\ session_df = df
          /\ shown_df \in {NoFrame, df}
    /\ pc \in {"done", "stopped"} =>
          \A k \in DOMAIN history :
              history[k].uploaded = uploaded =>
                  /\ Produced(history[k]) = Produced(Outcome)
                  /\ (pc = "done" /\ uploaded # NoFrame) => history[k].session = session_df

\* the third run of a session repeats the upload of the first after a run
\* that stored another dataset
C19_Witness ==
    /\ pc = "done"
    /\ Len(history) = 2
    /\ uploaded # NoFrame
    /\ history[1].uploaded = uploaded
    /\ history[2].uploaded # uploaded
    /\ history[2].session # NoFrame
    /\ history[2].session # session_df
    /\ shown_df # NoFrame
    /\ shown_summary.view = "combined"

Sides == { <<"b","u","y">>, <<"s","e","l","l">> }

\* a row of company c on the side word holds the infinity of that sign as its
\* share count
Unbounded(c, word, sign) ==
    \E i \in RowsOf(c, word) : Cell(df, df.rows[i], SHARES) = Inf(sign)

\* some row of the filtered dataset holds an infinite share count
Infinite == \E i \in DOMAIN df.rows : Cell(df, df.rows[i], SHARES).k = "inf"

\* the totals step fails: the share total of a company on a side is infinite
TotalsStepFails ==
    /\ Infinite
    /\ \E c \in Companies : \E w \in Sides : Unbounded(c, w, 1) # Unbounded(c, w, -1)

\* the max-transaction step fails: the totals are computed, and the row
\* reported for a company on a side holds an infinite share count
MaxStepFails ==
    /\ Infinite
    /\ ~TotalsStepFails
    /\ \E c \in Companies : \E w \in Sides :
          \E i \in RowsOf(c, w) :
              Cell(df, df.rows[i], SHARES) = Inf(1) /\ Numeric(i, VALUE)

\* C20: a failure of the aggregation stays in the summary view. The run goes
\* past a failing totals step or max-transaction step to the statistics only;
\* there the filtered dataset shown before the aggregation is still shown, a
\* failed totals step has left an error and no summary, and a failed
\* max-transaction step has left a warning and the totals table, with the
\* companies that meet the threshold, in place of the combined summary.
C20_AggregationErrorsAreLocal ==
    /\ pc \in {"threshold", "max", "coerce", "merge", "averages"} => ~TotalsStepFails
    /\ pc \in {"merge", "averages"} => ~MaxStepFails
    /\ (pc \in {"stats", "done"} /\ uploaded # NoFrame) =>
          /\ shown_df = IF Len(df.rows) > 0 THEN df ELSE NoFrame
          /\ TotalsStepFails <=> AnalyticsError[1] \in Range(messages)
          /\ TotalsStepFails => shown_summary = Shown("none", NoTable)
          /\ MaxStepFails <=> MaxWarning \in Range(messages)
          /\ MaxStepFails =>
                /\ shown_summary = Shown("totals", transactions_summary)
                /\ CompaniesIn(shown_summary.table) = Material
                /\ combined_summary = NoTable

\* a run that ends after the max-transaction step failed on the sells of a
\* second company: the totals of the one company that meets the threshold are
\* shown below the filtered dataset of three rows
C20_Witness ==
    /\ pc = "done"
    /\ MaxStepFails
    /\ Len(df.rows) = 3
    /\ shown_df = df
    /\ shown_summary.view = "totals"
    /\ Len(shown_summary.table) = 1
    /\ shown_summary.table[1].TotalValueOfShareBuy = Num(<<9000000, 0>>)

\* of the positions S, those whose cell of the column is a number
Having(S, col) == { i \in S : Numeric(i, col) }

\* C21: in the totals as computed, a cell that is not a number adds nothing to
\* the sum of its own field, and the other numbers of its row are summed: the
\* share total is that of the rows with a share count, the value total that of
\* the rows with a value, and the delta total that of the rows with both
\* percentages, a row with one percentage adding neither it nor its negative
\* (the share counts summed are finite).
C21_NonNumericAddsNothing ==
    pc = "format" =>
        \A k \in DOMAIN transactions_summary :
            LET t == transactions_summary[k]
                b == RowsOf(t.COMPANY, <<"b","u","y">>)
                s == RowsOf(t.COMPANY, <<"s","e","l","l">>)
                both(S) == Having(Having(S, PCT_PRIOR), PCT_POST)
            IN  /\ Bounded(b) => t.TotalShareBuys = Num(TotalShares(Having(b, SHARES)))
                /\ Bounded(s) => t.TotalShareSells = Num(TotalShares(Having(s, SHARES)))
                /\ t.TotalValueOfShareBuy = Num(TotalValue(Having(b, VALUE)))
                /\ t.TotalValueOfShareSell = Num(TotalValue(Having(s, VALUE)))
                /\ t.DeltaShareholdingBuy = Num(TotalDelta(both(b)))
                /\ t.DeltaShareholdingSell = Num(TotalDelta(both(s)))

\* three buys of which one lacks a share count and a percentage after and
\* one lacks a value and a percentage before: 130 shares, a value of 170 and a
\* delta of 0.5; the sell without percentages gives 50 shares and a delta of 0
C21_Witness ==
    /\ pc = "format"
    /\ counts[6] = 4
    /\ ~Numeric(2, SHARES) /\ Numeric(2, VALUE) /\ Numeric(2, PCT_PRIOR) /\ ~Numeric(2, PCT_POST)
    /\ Numeric(3, SHARES) /\ ~Numeric(3, VALUE) /\ ~Numeric(3, PCT_PRIOR) /\ Numeric(3, PCT_POST)
    /\ transactions_summary[1].TotalShareBuys = Num(1300)
    /\ transactions_summary[1].TotalValueOfShareBuy = Num(<<170, 0>>)
    /\ transactions_summary[1].DeltaShareholdingBuy = Num(50000)
    /\ transactions_summary[1].TotalShareSells = Num(500)
    /\ transactions_summary[1].DeltaShareholdingSell = Num(0)

\* a count held in tenths, rounded to the nearest whole number, a tie to the
\* even one
Nearest(x) ==
    LET a == IF x >= 0 THEN x ELSE -x
        q == a \div 10
        r == a % 10
        up == r > 5 \/ (r = 5 /\ q % 2 = 1)
        n == (IF up THEN q + 1 ELSE q) * 10
    IN  IF x >= 0 THEN n ELSE -n

\* C22 as stated: in the formatted totals a share total is the sum of the share
\* counts rounded to the nearest integer, a value total the sum of the values
\* rounded to 2 decimals and a delta total the sum of the deltas rounded to 4.
C22_ShareTotalsRounded ==
    pc = "threshold" =>
        \A k \in DOMAIN transactions_summary :
            LET t == transactions_summary[k]
                b == RowsOf(t.COMPANY, <<"b","u","y">>)
                s == RowsOf(t.COMPANY, <<"s","e","l","l">>)
            IN  /\ Bounded(b) => t.TotalShareBuys = Num(Nearest(TotalShares(b)))
                /\ Bounded(s) => t.TotalShareSells = Num(Nearest(TotalShares(s)))
                /\ t.TotalValueOfShareBuy = Num(Round2(TotalValue(b)))
                /\ t.TotalValueOfShareSell = Num(Round2(TotalValue(s)))
                /\ t.DeltaShareholdingBuy = Num(Round4(TotalDelta(b)))
                /\ t.DeltaShareholdingSell = Num(Round4(TotalDelta(s)))

\* the values and the deltas alone are rounded as stated
C22_ValuesAndDeltasRounded ==
    pc = "threshold" =>
        \A k \in DOMAIN transactions_summary :
            LET t == transactions_summary[k]
                b == RowsOf(t.COMPANY, <<"b","u","y">>)
                s == RowsOf(t.COMPANY, <<"s","e","l","l">>)
            IN  /\ Bounded(b) => t.TotalShareBuys = Num(AsInt(TotalShares(b)))
                /\ Bounded(s) => t.TotalShareSells = Num(AsInt(TotalShares(s)))
                /\ t.TotalValueOfShareBuy = Num(Round2(TotalValue(b)))
                /\ t.TotalValueOfShareSell = Num(Round2(TotalValue(s)))
                /\ t.DeltaShareholdingBuy = Num(Round4(TotalDelta(b)))
                /\ t.DeltaShareholdingSell = Num(Round4(TotalDelta(s)))

\* the columns the aggregators read
AggregatorColumns ==
    { COMPANY, SYMBOL, TRANSACTION_TYPE, SHARES, VALUE, PCT_PRIOR, PCT_POST, DATE_FROM }

\* the required columns the pruner does not list, in the canonical order
RetainedColumns ==
    SelectSeq(REQUIRED_COLUMNS, LAMBDA c : c \notin Range(columns_to_remove))

\* the canonical position of each of them
RetainedAt ==
    [j \in DOMAIN RetainedColumns |-> IndexOf(REQUIRED_COLUMNS, RetainedColumns[j])]

\* C23: once an accepted upload is pruned, the dataset has the required
\* columns but the ten listed ones, in their order and with their cells; every
\* column an aggregator reads is among them, so the totals step finds none
\* missing and never reports a column as not found.
C23_PrunerKeepsAggregatorColumns ==
    /\ pc = "analytics" =>
          /\ df.columns = RetainedColumns
          /\ Len(df.columns) = Len(REQUIRED_COLUMNS) - 10
          /\ \A f \in {Chain(InputFrame)} :
                /\ Len(df.rows) = Len(f.rows)
                /\ \A r \in DOMAIN df.rows :
                      df.rows[r] = [j \in DOMAIN RetainedAt |-> f.rows[r][RetainedAt[j]]]
    /\ (pc \in {"analytics", "format", "stats", "done"} /\ uploaded # NoFrame) =>
          /\ AggregatorColumns \subseteq Range(df.columns)
          /\ first_missing(df) = <<>>
          /\ \A k \in DOMAIN messages : messages[k].text # "Column not found in the data."

\* an upload with padded headers in reverse order and two other columns has
\* been pruned to 19 columns and its totals are computed
C23_Witness ==
    /\ pc = "format"
    /\ Len(uploaded.columns) = 31
    /\ uploaded.columns[1] # SYMBOL
    /\ Len(df.columns) = 19
    /\ counts[6] > 0
    /\ df.columns[1] = SYMBOL
    /\ transactions_summary # NoTable

\* the symbol the totals report for company c when the dataset holds the rows
\* of c alone
SymbolAlone(c) == merged_summary(CompanyRows(transactions_df, c))[1].SYMBOL

\* C24 as stated: the symbol the totals report for a company is the one they
\* report when the rows of every other company are removed from the dataset.
C24_SymbolFromOwnRows ==
    pc = "format" =>
        \A k \in DOMAIN transactions_summary :
            transactions_summary[k].SYMBOL = SymbolAlone(transactions_summary[k].COMPANY)

\* no share count and no value of the filtered dataset is negative
NonNegative ==
    \A i \in DOMAIN df.rows :
        /\ Cell(df, df.rows[i], SHARES).k # "inf"
        /\ Numeric(i, SHARES) => SharesOf(i) >= 0
        /\ Numeric(i, VALUE) => ~VLess(ValueOf(i), VZero)

\* every row of the combined summary has a maximum no larger than the total,
\* for the values and the share counts of both sides
MaximaWithinTotals ==
    \A k \in DOMAIN combined_summary :
        LET r == combined_summary[k]
        IN  /\ r.MaxBuyValue.k = "num" /\ r.TotalValueOfShareBuy.k = "num"
            /\ ~VLess(r.TotalValueOfShareBuy.n, r.MaxBuyValue.n)
            /\ r.NumberOfMaxBuyShares.k = "num" /\ r.TotalShareBuys.k = "num"
            /\ r.NumberOfMaxBuyShares.n <= r.TotalShareBuys.n
            /\ r.MaxSellValue.k = "num" /\ r.TotalValueOfShareSell.k = "num"
            /\ ~VLess(r.TotalValueOfShareSell.n, r.MaxSellValue.n)
            /\ r.NumberOfMaxSellShares.k = "num" /\ r.TotalShareSells.k = "num"
            /\ r.NumberOfMaxSellShares.n <= r.TotalShareSells.n

\* C25: when no share count and no value of the filtered dataset is negative,
\* every row of the combined summary shown has, on each side, a maximum value
\* no larger than the total value and a maximum share count no larger than the
\* total share count, and a positive maximum buy value.
C25_MaximaWithinTotals ==
    (pc = "stats" /\ shown_summary.view = "combined" /\ NonNegative) =>
        /\ MaximaWithinTotals
        /\ \A k \in DOMAIN combined_summary : VLess(VZero, combined_summary[k].MaxBuyValue.n)

\* the same without the condition on the signs
C25_WhateverTheSigns ==
    (pc = "stats" /\ shown_summary.view = "combined") => MaximaWithinTotals

\* buys of 9,000,000 and 4,500,000 with 100 shares each: a maximum of
\* 9,000,000 and 100 shares in a total of 13,500,000 and 200 shares
C25_Witness ==
    /\ pc = "stats"
    /\ shown_summary.view = "combined"
    /\ NonNegative
    /\ Len(combined_summary) = 1
    /\ combined_summary[1].MaxBuyValue = Num(<<9000000, 0>>)
    /\ combined_summary[1].TotalValueOfShareBuy = Num(<<13500000, 0>>)
    /\ combined_summary[1].NumberOfMaxBuyShares = Num(1000)
    /\ combined_summary[1].TotalShareBuys = Num(2000)

\* the positions of records of the summary that are about company c
RecordsOf(summary, c) == { k \in DOMAIN summary : summary[k].COMPANY = c }

\* C26: the combined summary has one row for each company whose total buy
\* value, as the totals report it, meets the threshold, and no other row; the
\* row holds the sums of that company's totals record and the maxima of that
\* company's max-transaction record, none of them missing; and it is the
\* summary that merging the totals before the threshold of line 435 with the
\* maxima and applying the threshold once would give.
C26_MergeKeepsRetainedCompanies ==
    /\ pc = "averages" =>
          combined_summary =
              merge_summaries(formatted_summary(merged_summary(transactions_df)),
                              max_transactions_summary)
    /\ (pc = "averages" \/ (pc = "stats" /\ shown_summary.view = "combined")) =>
          /\ CompaniesIn(combined_summary) = Material
          /\ Len(combined_summary) = Cardinality(Material)
          /\ \A k \in DOMAIN combined_summary :
                LET r == combined_summary[k]
                    T == RecordsOf(transactions_summary, r.COMPANY)
                    M == RecordsOf(max_transactions_summary, r.COMPANY)
                IN  /\ Cardinality(T) = 1 /\ Cardinality(M) = 1
                    /\ \A i \in T :
                          LET t == transactions_summary[i]
                          IN  /\ r.TotalShareBuys = t.TotalShareBuys
                              /\ r.TotalValueOfShareBuy = t.TotalValueOfShareBuy
                              /\ r.DeltaShareholdingBuy = t.DeltaShareholdingBuy
                              /\ r.TotalShareSells = t.TotalShareSells
                              /\ r.TotalValueOfShareSell = t.TotalValueOfShareSell
                              /\ r.DeltaShareholdingSell = t.DeltaShareholdingSell
                    /\ \A i \in M :
                          LET m == max_transactions_summary[i]
                          IN  /\ r.MaxBuyValue = m.MaxBuyValue
                              /\ r.NumberOfMaxBuyShares = m.NumberOfMaxBuyShares
                              /\ r.MaxBuyDate = m.MaxBuyDate
                              /\ r.MaxSellValue = m.MaxSellValue
                              /\ r.NumberOfMaxSellShares = m.NumberOfMaxSellShares
                              /\ r.MaxSellDate = m.MaxSellDate
                    /\ \A f \in {"TotalShareBuys", "TotalValueOfShareBuy", "DeltaShareholdingBuy",
                                 "TotalShareSells", "TotalValueOfShareSell",
                                 "DeltaShareholdingSell", "MaxBuyValue", "NumberOfMaxBuyShares",
                                 "MaxSellValue", "NumberOfMaxSellShares"} : r[f].k = "num"
                    /\ r.MaxBuyDate # NaN /\ r.MaxSellDate # NaN

\* of two companies with maxima, the one whose buys reach 9,000,000 is in
\* the combined summary and the one whose buys do not is in neither the
\* thresholded totals nor the combined summary
C26_Witness ==
    /\ pc = "averages"
    /\ Len(max_transactions_summary) = 2
    /\ Len(formatted_summary(merged_summary(transactions_df))) = 2
    /\ Len(transactions_summary) = 1
    /\ Len(combined_summary) = 1
    /\ combined_summary[1].COMPANY = max_transactions_summary[1].COMPANY
    /\ combined_summary[1].MaxBuyValue = Num(<<9000000, 0>>)
    /\ max_transactions_summary[2].MaxBuyValue = Num(<<4500000, 0>>)

====
